---- MODULE Spec2Model ----
(***************************************************************************)
(* Alph: the configure command (src/src/commands/configure.ts) and the     *)
(* configuration transaction it drives through the agent registry.         *)
(*                                                                         *)
(* The command is translated from configure.ts.  The registry's            *)
(* configureAllDetectedAgents, the ConfigStore (load / merge / save /      *)
(* backup) and the detection of agents are not part of the sources at      *)
(* hand; they are modelled from spec.md sections 3, 4.3 and 4.4.           *)
(***************************************************************************)
EXTENDS Integers, Sequences, FiniteSets, TLC

(* ------------------------------------------------------------------ *)
(* Bounds                                                              *)
(* ------------------------------------------------------------------ *)
NAgents == 3
MaxMerges == 3

Agents == 1..NAgents

(* ------------------------------------------------------------------ *)
(* Documents and files                                                 *)
(* ------------------------------------------------------------------ *)
ServerIds == {"A", "B", "C"}
Entries == {"old", "new"}
NewServerId == "C"

EmptyMap == [x \in {} |-> "old"]

MapSet(m, k, v) == [x \in (DOMAIN m) \cup {k} |-> IF x = k THEN v ELSE m[x]]

\* A ConfigDocument: the unrelated top-level settings, and the server map
\* under serverMapKey, which may be absent, a map, or a value of another shape.
Doc(other, shape, servers) == [other |-> other, shape |-> shape, servers |-> servers]

EmptyDoc == Doc("none", "absent", EmptyMap)
GoodDoc == Doc("settings", "map", MapSet(EmptyMap, "B", "old"))
BadShapeDoc == Doc("settings", "bad", EmptyMap)

\* What a path holds: nothing, unparseable bytes, a half-written file, or the
\* serialization of a document in some layout (indentation, key order).
File(kind, doc, fmt) == [kind |-> kind, doc |-> doc, fmt |-> fmt]

Absent == File("absent", EmptyDoc, "none")
Corrupt == File("corrupt", EmptyDoc, "none")
Partial == File("partial", EmptyDoc, "none")

\* save serializes with a stable pretty-printed layout.
Serialize(doc) == File("doc", doc, "canon")

\* load parses the bytes: the layout is not part of the document.
Parse(f) == f.doc

Exists(f) == f.kind # "absent"

\* The contents a configuration file may have before a run.
FileStates ==
  { Absent, Corrupt,
    File("doc", GoodDoc, "canon"), File("doc", GoodDoc, "custom"),
    File("doc", BadShapeDoc, "canon") }

(* merge(document, serverMapKey, serverId, entry) *)
MergeWhole(doc, sid, e) ==
  [doc EXCEPT !.shape = "map", !.servers = MapSet(EmptyMap, sid, e)]

\* merge refuses a document whose server map is not a map.
MergeFails(doc) == doc.shape = "bad"

Merge(doc, sid, e) ==
  [doc EXCEPT !.shape = "map",
              !.servers = MapSet(IF doc.shape = "map" THEN doc.servers ELSE EmptyMap, sid, e)]

(* ------------------------------------------------------------------ *)
(* Options of the configure command                                    *)
(* ------------------------------------------------------------------ *)
Transports == {"http", "sse", "stdio"}
\* mcpServerEndpoint: not given, not a URL, a well-formed URL
Endpoints == {"", "notaurl", "https://h/mcp/C"}

IsUrl(e) == e = "https://h/mcp/C"

VARIABLES
  opts,        \* the options as given to the constructor
  pc,          \* where execute() is
  thrown,      \* the error execute() rejected with, "" if none
  printed,     \* the messages printed so far
  detected,    \* detectionResults: the agents detected
  files,       \* configuration file of each agent
  orig,        \* the files as they were when the command began
  tmp,         \* the temporary sibling file of each agent
  backups,     \* the backup sibling file of each agent
  targets,     \* the providers handed to the registry, in order
  txState,     \* state of the transaction
  idx,         \* position in targets of the agent being applied
  step,        \* the step the transaction is at for that agent
  cur,         \* the document in work for that agent
  records,     \* the TransactionRecords, in commit order
  rbPos,       \* position in records of the next record to revert
  txError,     \* the triggering error: failing agent and cause
  log,         \* the file operations performed, in order
  document,    \* a document that entries are merged into
  document0,   \* that document before the first merge
  merges,      \* the merges made into it: << serverId, entry >>, in order
  fn,          \* the function of the renderer or of the redactors last called
  input,       \* the value it was first called with
  output,      \* the values returned so far, in order
  heap,        \* the objects that call can reach, by reference
  heap0        \* those objects as they were before the first call

vars == << opts, pc, thrown, printed, detected, files, orig, tmp, backups,
           targets, txState, idx, step, cur, records, rbPos, txError, log,
           document, document0, merges, fn, input, output, heap, heap0 >>

\* The variables of the document under merge; a run of the command leaves
\* them alone.
storeVars == << document, document0, merges >>

\* The variables of a call of the renderer or of a redactor; the command and
\* the transaction leave them alone.
callVars == << fn, input, output, heap, heap0 >>

\* No such call was made.
NoCall ==
  /\ fn = "none"
  /\ input = << >>
  /\ output = << >>
  /\ heap = << >>
  /\ heap0 = << >>

(* ------------------------------------------------------------------ *)
(* Errors and results                                                  *)
(* ------------------------------------------------------------------ *)
Err(kind, agent) == [kind |-> kind, agent |-> agent]
NoError == Err("", 0)

NoTxError == [agent |-> 0, kind |-> "", rollbackFailed |-> FALSE]

NoPrev == [existed |-> FALSE, doc |-> EmptyDoc]
NoCur == [agent |-> 0, doc |-> EmptyDoc, prev |-> NoPrev, backupPath |-> FALSE,
          content |-> Absent]

\* Ascending sequence of a set of agents: the registry's order of providers.
RECURSIVE InOrder(_)
InOrder(S) ==
  IF S = {} THEN << >>
  ELSE LET m == CHOOSE x \in S : \A y \in S : x <= y
       IN << m >> \o InOrder(S \ {m})

(* ------------------------------------------------------------------ *)
(* configure.ts: constructor, validateOptions, execute                 *)
(* ------------------------------------------------------------------ *)
\* backup: options.backup ?? true
BackupAlways(o) == TRUE

BackupOption(o) == IF o.backup = "unset" THEN TRUE ELSE o.backup = "on"

\* The error validateOptions throws, "" if it returns.
validateOptions(o) ==
  IF ~o.interactive /\ o.transport \in {"http", "sse"} /\ o.endpoint = "" /\ ~o.dryRun
    THEN "--mcp-server-endpoint is required for http/sse in non-interactive mode"
  ELSE IF o.endpoint # "" /\ o.transport \in {"http", "sse"} /\ ~IsUrl(o.endpoint)
    THEN "Invalid MCP server endpoint URL"
  ELSE ""

noFlags(o) ==
  o.endpoint = "" /\ o.bearer = "" /\ o.agents = {} /\ ~o.dryRun /\ ~o.yes

\* detectAvailableAgents(providerFilter): the providers of the filter (all of
\* them without a filter) whose configuration file exists.
DetectedProviders(o, fs) ==
  { a \in Agents : (o.agents = {} \/ a \in o.agents) /\ Exists(fs[a]) }

\* execute() 1): nothing detected and no agent asked for by name; agents asked
\* for by name are configured although none of their files was detected.
NoAgentsDetectedAtAll(o, det) == det = {}

NoAgentsToConfigure(o, det) == det = {} /\ o.agents = {}

\* configureAgents: the providers handed to the registry.
SelectedProviders(o, det) ==
  IF o.agents # {}
    THEN IF det \cap o.agents # {} THEN InOrder(det \cap o.agents)
         ELSE InOrder(o.agents)
    ELSE InOrder(det)

\* The third argument of configureAllDetectedAgents.
NoRollbackOnFailure == FALSE

RollbackOnAnyFailure == TRUE

Options ==
  [ transport : Transports, endpoint : Endpoints, command : {"", "cmd"},
    bearer : {""}, interactive : BOOLEAN, dryRun : BOOLEAN, yes : BOOLEAN,
    backup : {"unset", "on", "off"}, agents : SUBSET Agents ]

\* The options the runs are started with: command only with stdio, an
\* endpoint only with http and sse, the backup flag only on runs that apply
\* without a prompt, an explicit backup = true only with http.
OptionSpace ==
  { o \in Options :
      /\ (o.transport # "stdio" => o.command = "")
      /\ (o.transport = "stdio" => o.endpoint = "")
      /\ (o.interactive => ~o.dryRun /\ ~o.yes)
      /\ (o.dryRun => ~o.yes)
      /\ (validateOptions(o) # "" => ~o.yes)
      /\ (~o.yes => o.backup = "unset")
      /\ (o.backup = "on" => o.transport = "http") }

Init ==
  /\ opts \in OptionSpace
  /\ files \in [Agents -> FileStates]
  /\ \A a \in Agents : (opts.agents # {} /\ a \notin opts.agents) => files[a] = Absent
  /\ orig = files
  /\ pc = "execute"
  /\ thrown = NoError
  /\ printed = {}
  /\ detected = {}
  /\ tmp = [a \in Agents |-> Absent]
  /\ backups = [a \in Agents |-> Absent]
  /\ targets = << >>
  /\ txState = "Pending"
  /\ idx = 0
  /\ step = "none"
  /\ cur = NoCur
  /\ records = << >>
  /\ rbPos = 0
  /\ txError = NoTxError
  /\ log = << >>
  /\ document = EmptyDoc
  /\ document0 = EmptyDoc
  /\ merges = << >>
  /\ NoCall

txVars == << files, tmp, backups, targets, txState, idx, step, cur, records, rbPos,
             txError, log >>

\* execute(): validateOptions, then the interactive path or manual mode.
Execute ==
  /\ pc = "execute"
  /\ LET e == validateOptions(opts) IN
       IF e # ""
         THEN /\ pc' = "rejected"
              /\ thrown' = Err(e, 0)
         ELSE /\ pc' = IF opts.interactive \/ noFlags(opts) THEN "wizard" ELSE "detect"
              /\ thrown' = thrown
  /\ UNCHANGED << opts, printed, detected, orig, txVars, storeVars, callVars >>

\* execute() 1): detect the agents; with none detected and none requested
\* handleNoAgentsDetected() and return.
DetectAgentsIgnoringDryRun ==
  /\ pc = "detect"
  /\ detected' = DetectedProviders(opts, files)
  /\ IF NoAgentsToConfigure(opts, detected')
       THEN /\ printed' = printed \cup {"noAgents"}
            /\ pc' = "resolved"
       ELSE /\ printed' = printed
            /\ pc' = IF ~opts.yes THEN "confirm" ELSE "configure"
  /\ UNCHANGED << opts, thrown, orig, txVars, storeVars, callVars >>

DetectAgents ==
  /\ pc = "detect"
  /\ detected' = DetectedProviders(opts, files)
  /\ IF NoAgentsToConfigure(opts, detected')
       THEN /\ printed' = printed \cup {"noAgents"}
            /\ pc' = "resolved"
       ELSE /\ printed' = printed
            /\ pc' = IF opts.dryRun THEN "dryRun"
                     ELSE IF ~opts.yes THEN "confirm" ELSE "configure"
  /\ UNCHANGED << opts, thrown, orig, txVars, storeVars, callVars >>

\* execute() 4): printDryRunPreview and return.
DryRun ==
  /\ pc = "dryRun"
  /\ printed' = printed \cup {"dryRun"}
  /\ pc' = "resolved"
  /\ UNCHANGED << opts, thrown, detected, orig, txVars, storeVars, callVars >>

\* execute() 5): the confirmation prompt.
Confirm ==
  /\ pc = "confirm"
  /\ \E confirmed \in BOOLEAN :
       IF confirmed
         THEN /\ pc' = "configure"
              /\ printed' = printed
         ELSE /\ pc' = "resolved"
              /\ printed' = printed \cup {"cancelled"}
  /\ UNCHANGED << opts, thrown, detected, orig, txVars, storeVars, callVars >>

\* configureAgents(): select the providers and call the registry.
ConfigureAgents ==
  /\ pc = "configure"
  /\ targets' = SelectedProviders(opts, detected)
  /\ pc' = "registry"
  /\ UNCHANGED << opts, thrown, printed, detected, orig, files, tmp, backups, txState,
                  idx, step, cur, records, rbPos, txError, log, storeVars, callVars >>

(* ------------------------------------------------------------------ *)
(* The transaction (spec.md 4.4) over the ConfigStore (spec.md 4.3)    *)
(* ------------------------------------------------------------------ *)
cmdVars == << opts, thrown, printed, detected, orig, storeVars, callVars >>

Agent == targets[idx]

Logged(op, a) == Append(log, << op, a >>)

TransactionRecord(a, backupPath, prev) ==
  [agent |-> a, backupPath |-> backupPath, previousDocument |-> prev,
   applied |-> TRUE, error |-> NoError]

\* An apply step of the agent at idx failed: stop advancing; roll back when
\* asked to, otherwise return the results as they are.
FailApply(kind, lg) ==
  /\ txError' = [agent |-> Agent, kind |-> kind, rollbackFailed |-> FALSE]
  /\ log' = Append(lg, << "fail", Agent >>)
  /\ tmp' = [tmp EXCEPT ![Agent] = Absent]
  /\ cur' = NoCur
  /\ IF RollbackOnAnyFailure
       THEN /\ txState' = "RollingBack"
            /\ rbPos' = Len(records)
            /\ step' = "revert"
            /\ pc' = pc
       ELSE /\ txState' = txState
            /\ rbPos' = rbPos
            /\ step' = "none"
            /\ pc' = "report"

\* A restore of the rollback failed: the distinct fatal condition.
RollbackSwallowed(e) == e

RollbackFailure(e) == [e EXCEPT !.rollbackFailed = TRUE]

\* The record list grows at its end: its order is the commit order.
AddRecordFirst(rs, r) == << r >> \o rs

AddRecord(rs, r) == Append(rs, r)

\* The agent at position i of n targets is the last one.
IsLastAlways(i, n) == TRUE

IsLast(i, n) == i = n

\* The rollback walks the records from the last one back to the first:
\* with pos records still to revert out of n, it reverts the one at pos.
RevertIndexForward(pos, n) == n - pos + 1

RevertIndex(pos, n) == pos

\* The invariants of a CanonicalServerSpec do not hold: no URL or a malformed
\* URL with http or sse, no command with stdio.
InvalidSpec(o) ==
  IF o.transport = "stdio" THEN o.command = "" ELSE ~IsUrl(o.endpoint)

\* 1. Validate the canonical spec against its invariants; abort with a
\* ValidationError before any file is touched when it is invalid.
ValidateSpec ==
  /\ pc = "registry" /\ txState = "Pending"
  /\ IF InvalidSpec(opts)
       THEN /\ pc' = "rejected"
            /\ thrown' = Err("ValidationError", 0)
            /\ txState' = txState
       ELSE /\ pc' = pc
            /\ thrown' = thrown
            /\ txState' = "Rendering"
  /\ UNCHANGED << opts, printed, detected, orig, files, tmp, backups, targets, idx,
                  step, cur, records, rbPos, txError, log, storeVars, callVars >>

\* 2. Render the entry of every target; the renderer never throws.
RenderEntries ==
  /\ pc = "registry" /\ txState = "Rendering"
  /\ txState' = "Applying"
  /\ idx' = 1
  /\ step' = "backup"
  /\ UNCHANGED << cmdVars, pc, files, tmp, backups, targets, cur, records, rbPos,
                  txError, log >>

\* backup(path): copy the current bytes to a sibling path, when the policy
\* flag is on and the file exists.
BackupCopies(flag, f) == flag /\ Exists(f)

TakeBackup ==
  /\ pc = "registry" /\ txState = "Applying" /\ step = "backup"
  /\ LET made == BackupCopies(BackupOption(opts), files[Agent]) IN
       /\ backups' = IF made THEN [backups EXCEPT ![Agent] = files[Agent]] ELSE backups
       /\ cur' = [NoCur EXCEPT !.agent = Agent, !.backupPath = made]
       /\ log' = IF made THEN Logged("backup", Agent) ELSE log
  /\ step' = "load"
  /\ UNCHANGED << cmdVars, pc, files, tmp, targets, txState, idx, records, rbPos, txError >>

\* load(path, format): the empty default document when the file does not
\* exist; a parse error when its bytes are not valid.
Load ==
  /\ pc = "registry" /\ txState = "Applying" /\ step = "load"
  /\ IF files[Agent].kind = "corrupt"
       THEN /\ FailApply("ParseError", Logged("load", Agent))
            /\ UNCHANGED << idx, records >>
       ELSE /\ log' = Logged("load", Agent)
            /\ cur' = [cur EXCEPT
                         !.doc = IF Exists(files[Agent]) THEN Parse(files[Agent]) ELSE EmptyDoc,
                         !.prev = IF Exists(files[Agent])
                                    THEN [existed |-> TRUE, doc |-> Parse(files[Agent])]
                                    ELSE NoPrev]
            /\ step' = "merge"
            /\ UNCHANGED << pc, tmp, txState, idx, records, rbPos, txError >>
  /\ UNCHANGED << cmdVars, files, backups, targets >>

\* merge: fails on a server map of an unexpected shape.
MergeEntry ==
  /\ pc = "registry" /\ txState = "Applying" /\ step = "merge"
  /\ IF MergeFails(cur.doc)
       THEN /\ FailApply("ShapeError", Logged("merge", Agent))
            /\ UNCHANGED << idx, records >>
       ELSE /\ log' = Logged("merge", Agent)
            /\ cur' = [cur EXCEPT !.doc = Merge(cur.doc, NewServerId, "new"),
                                  !.content = Serialize(Merge(cur.doc, NewServerId, "new"))]
            /\ step' = "save1"
            /\ UNCHANGED << pc, tmp, txState, idx, records, rbPos, txError >>
  /\ UNCHANGED << cmdVars, files, backups, targets >>

\* save(path, format, document), first part: the temporary file in the same
\* directory is being written.
WriteInPlace(fs, ts, a, content) == << [fs EXCEPT ![a] = content], ts >>

WriteTmp(fs, ts, a, content) == << fs, [ts EXCEPT ![a] = content] >>

SaveWriteTmp ==
  /\ pc = "registry" /\ step = "save1"
  /\ files' = WriteTmp(files, tmp, cur.agent, Partial)[1]
  /\ tmp' = WriteTmp(files, tmp, cur.agent, Partial)[2]
  /\ step' = "save2"
  /\ UNCHANGED << cmdVars, pc, backups, targets, txState, idx, cur, records,
                  rbPos, txError, log >>

\* save, second part: the temporary file holds the whole serialization.
SaveFinishTmp ==
  /\ pc = "registry" /\ step = "save2"
  /\ files' = WriteTmp(files, tmp, cur.agent, cur.content)[1]
  /\ tmp' = WriteTmp(files, tmp, cur.agent, cur.content)[2]
  /\ step' = "save3"
  /\ UNCHANGED << cmdVars, pc, backups, targets, txState, idx, cur, records,
                  rbPos, txError, log >>

\* save, last part: rename the temporary file over the target.  In the
\* rollback this completes the restore of the record at rbPos.
SaveRename ==
  /\ pc = "registry" /\ step = "save3"
  /\ files' = [files EXCEPT ![cur.agent] = tmp[cur.agent]]
  /\ tmp' = [tmp EXCEPT ![cur.agent] = Absent]
  /\ IF txState = "Applying"
       THEN /\ log' = Logged("save", cur.agent)
            /\ step' = "record"
            /\ UNCHANGED << cur, records, rbPos >>
       ELSE /\ log' = Logged("restore", cur.agent)
            /\ records' = [records EXCEPT ![RevertIndex(rbPos, Len(records))].applied = FALSE]
            /\ rbPos' = rbPos - 1
            /\ cur' = NoCur
            /\ step' = "revert"
  /\ UNCHANGED << cmdVars, pc, backups, targets, txState, idx, txError >>

\* An I/O error in save (permission denied, disk full): the target is left
\* as it was.  In the rollback this is the RollbackError.
SaveFails ==
  /\ pc = "registry" /\ step \in {"save1", "save2", "save3"}
  /\ IF txState = "Applying"
       THEN /\ FailApply("IOError", log)
            /\ UNCHANGED << idx, records >>
       ELSE /\ tmp' = [tmp EXCEPT ![cur.agent] = Absent]
            /\ txError' = RollbackFailure(txError)
            /\ cur' = NoCur
            /\ step' = "none"
            /\ pc' = "report"
            /\ UNCHANGED << txState, idx, records, rbPos, log >>
  /\ UNCHANGED << cmdVars, files, backups, targets >>

\* The process dies during save.
Crash ==
  /\ pc = "registry" /\ step \in {"save1", "save2", "save3"}
  /\ pc' = "crashed"
  /\ UNCHANGED << cmdVars, txVars >>

\* 3. Append the TransactionRecord of the agent just saved and go on to the
\* next agent; after the last one the transaction is committed.
AppendRecord ==
  /\ pc = "registry" /\ txState = "Applying" /\ step = "record"
  /\ records' = AddRecord(records, TransactionRecord(Agent, cur.backupPath, cur.prev))
  /\ cur' = NoCur
  /\ IF IsLast(idx, Len(targets))
       THEN /\ txState' = "Committed"
            /\ step' = "none"
            /\ pc' = "report"
            /\ idx' = idx
       ELSE /\ txState' = txState
            /\ step' = "backup"
            /\ pc' = pc
            /\ idx' = idx + 1
  /\ UNCHANGED << cmdVars, files, tmp, backups, targets, rbPos, txError, log >>

\* 4. Revert the record at rbPos: write back the captured previous document,
\* or delete the file when it did not exist before.
RevertNext ==
  /\ pc = "registry" /\ txState = "RollingBack" /\ step = "revert" /\ rbPos > 0
  /\ LET r == records[RevertIndex(rbPos, Len(records))] IN
       IF r.previousDocument.existed
         THEN /\ cur' = [NoCur EXCEPT !.agent = r.agent,
                                      !.content = Serialize(r.previousDocument.doc)]
              /\ step' = "save1"
              /\ UNCHANGED << files, records, rbPos, log >>
         ELSE /\ files' = [files EXCEPT ![r.agent] = Absent]
              /\ records' = [records EXCEPT ![RevertIndex(rbPos, Len(records))].applied = FALSE]
              /\ rbPos' = rbPos - 1
              /\ log' = Logged("delete", r.agent)
              /\ UNCHANGED << cur, step >>
  /\ UNCHANGED << cmdVars, pc, tmp, backups, targets, txState, idx, txError >>

\* Deleting a created file fails: the RollbackError.
DeleteFails ==
  /\ pc = "registry" /\ txState = "RollingBack" /\ step = "revert" /\ rbPos > 0
  /\ ~records[RevertIndex(rbPos, Len(records))].previousDocument.existed
  /\ txError' = RollbackFailure(txError)
  /\ step' = "none"
  /\ pc' = "report"
  /\ UNCHANGED << cmdVars, files, tmp, backups, targets, txState, idx, cur, records,
                  rbPos, log >>

\* Every applied record is reverted.
RolledBack ==
  /\ pc = "registry" /\ txState = "RollingBack" /\ step = "revert" /\ rbPos = 0
  /\ txState' = "RolledBack"
  /\ step' = "none"
  /\ pc' = "report"
  /\ UNCHANGED << cmdVars, files, tmp, backups, targets, idx, cur, records, rbPos,
                  txError, log >>

(* ------------------------------------------------------------------ *)
(* configure.ts: configureAgents reports the results                   *)
(* ------------------------------------------------------------------ *)
\* 5. The per-agent results the registry returns: one per record, in
\* commit order, then the failing agent with its error.
Result(a, error, applied, backupPath) ==
  [agent |-> a, error |-> error, applied |-> applied, backupPath |-> backupPath]

Results ==
  [i \in 1..Len(records) |->
     Result(records[i].agent, records[i].error, records[i].applied, records[i].backupPath)]
  \o (IF txError.kind = "" THEN << >>
      ELSE << Result(txError.agent, Err(txError.kind, txError.agent), FALSE, FALSE) >>)

\* r.success
Success(r) == r.error = NoError

\* summarizeConfigurationResults(configResults).failed
Failed(rs) == Cardinality({i \in 1..Len(rs) : ~Success(rs[i])})

Successful(rs) == Cardinality({i \in 1..Len(rs) : Success(rs[i])})

\* configResults.find(r => !r.success)?.error || 'Configuration failed'
FirstError(rs) ==
  LET bad == {i \in 1..Len(rs) : ~Success(rs[i])} IN
    IF bad = {} THEN Err("Configuration failed", 0)
    ELSE LET i == CHOOSE j \in bad : \A k \in bad : j <= k IN
           IF rs[i].error = NoError THEN Err("Configuration failed", 0) ELSE rs[i].error

\* if (configSummary.failed > 0) { ... throw new Error(firstError) }
NeverThrows(rs) == FALSE

Throws(rs) == Failed(rs) > 0

\* configureAgents after the registry returned, then execute()'s and
\* executeConfigureCommand()'s catch blocks, which rethrow.
Report ==
  /\ pc = "report"
  /\ IF txError.rollbackFailed
       THEN /\ thrown' = Err("RollbackError", txError.agent)
            /\ printed' = printed \cup {"error"}
            /\ pc' = "rejected"
       ELSE LET rs == Results IN
              /\ printed' = printed
                   \cup (IF Successful(rs) > 0 THEN {"success"} ELSE {})
                   \cup (IF Failed(rs) > 0 THEN {"failed"} ELSE {})
                   \cup (IF Throws(rs) THEN {"error"} ELSE {"complete"})
              /\ thrown' = IF Throws(rs) THEN FirstError(rs) ELSE thrown
              /\ pc' = IF Throws(rs) THEN "rejected" ELSE "resolved"
  /\ UNCHANGED << opts, detected, orig, txVars, storeVars, callVars >>

Next ==
  \/ Execute
  \/ DetectAgents
  \/ DryRun
  \/ Confirm
  \/ ConfigureAgents
  \/ ValidateSpec
  \/ RenderEntries
  \/ TakeBackup
  \/ Load
  \/ MergeEntry
  \/ SaveWriteTmp
  \/ SaveFinishTmp
  \/ SaveRename
  \/ SaveFails
  \/ Crash
  \/ AppendRecord
  \/ RevertNext
  \/ DeleteFails
  \/ RolledBack
  \/ Report

Spec == Init /\ [][Next]_vars

(* ------------------------------------------------------------------ *)
(* Properties of the transaction                                       *)
(* ------------------------------------------------------------------ *)
Reverse(q) == [i \in 1..Len(q) |-> q[Len(q) + 1 - i]]

IsPrefix(p, q) == Len(p) <= Len(q) /\ \A i \in 1..Len(p) : p[i] = q[i]

AgentsOf(q) == [i \in 1..Len(q) |-> q[i][2]]

ApplyOps == {"backup", "load", "merge", "save", "fail"}
RevertOps == {"restore", "delete"}

IsSave(e) == e[1] = "save"
IsRevert(e) == e[1] \in RevertOps

\* The agents committed, and the agents reverted, in the order it happened.
CommitOrder == AgentsOf(SelectSeq(log, IsSave))
RevertOrder == AgentsOf(SelectSeq(log, IsRevert))

\* The transaction has ended and control is back in configureAgents.
TxEnded == pc \in {"report", "resolved", "rejected"} /\ txState # "Pending"

ApplyFailed == txError.kind # ""

\* What load returns for the file f, and what is captured of it.
Loaded(f) == IF Exists(f) THEN Parse(f) ELSE EmptyDoc
Captured(f) == IF Exists(f) THEN [existed |-> TRUE, doc |-> Parse(f)] ELSE NoPrev

\* The file after the entry was applied to f, and after that was reverted.
Applied(f) == Serialize(Merge(Loaded(f), NewServerId, "new"))
Restored(f) == IF Exists(f) THEN Serialize(Parse(f)) ELSE Absent

C2_RollbackReverseOrder ==
  /\ \A i, j \in 1..Len(log) :
       (log[i][1] = "fail" /\ i < j) => log[j][1] \in RevertOps
  /\ ApplyFailed => (idx \in 1..Len(targets) /\ targets[idx] = txError.agent)
  /\ IsPrefix(RevertOrder, Reverse(CommitOrder))
  /\ (txState = "RolledBack") => (RevertOrder = Reverse(CommitOrder))
  /\ \A j \in 1..Len(log) :
       IsRevert(log[j]) =>
         /\ files[log[j][2]] = Restored(orig[log[j][2]])
         /\ (log[j][1] = "delete") <=> ~Exists(orig[log[j][2]])
  /\ \A i \in 1..Len(records) :
       ~records[i].applied <=> (\E j \in 1..Len(RevertOrder) : RevertOrder[j] = records[i].agent)

C2_Witness ==
  /\ txState = "RolledBack"
  /\ Len(RevertOrder) = 2
  /\ \E j \in 1..Len(log) : log[j][1] = "restore"

\* C3: the agents are applied one after another in the order of targets: an
\* agent's backup, load, merge or save comes only after the save of every
\* agent before it and never after its own save, at most one agent has a
\* temporary file at any time, and each saved agent has one record, at the
\* position of its commit, applied = true while nothing is rolled back,
\* holding what was captured of its previous document.
C3_SequentialApply ==
  /\ Cardinality({a \in Agents : tmp[a] # Absent}) <= 1
  /\ \A p \in 1..Len(log) :
       log[p][1] \in ApplyOps =>
         \E k \in 1..Len(targets) :
           /\ targets[k] = log[p][2]
           /\ \A i \in 1..(k - 1) : \E q \in 1..(p - 1) : log[q] = << "save", targets[i] >>
           /\ \A q \in 1..(p - 1) : log[q] # << "save", targets[k] >>
  /\ IsPrefix(AgentsOf([i \in 1..Len(records) |-> << "record", records[i].agent >>]), CommitOrder)
  /\ Len(CommitOrder) = Len(records) + (IF step = "record" THEN 1 ELSE 0)
  /\ \A i \in 1..Len(records) :
       /\ records[i].agent = targets[i]
       /\ records[i].previousDocument = Captured(orig[targets[i]])
       /\ (txState \in {"Applying", "Committed"}) => records[i].applied

C3_Witness ==
  /\ txState = "Committed"
  /\ Len(records) = 3
  /\ CommitOrder = targets

NothingWritten ==
  /\ files = orig
  /\ \A a \in Agents : tmp[a] = Absent /\ backups[a] = Absent

\* C4 (as claimed): a manual run with a server specification that violates
\* its invariants is rejected before any agent is detected, rendered or
\* written: it never resolves, no agent is detected, the transaction never
\* leaves Pending and no configuration, temporary or backup file is touched.
C4_InvalidSpecRejectedFirst ==
  (InvalidSpec(opts) /\ ~opts.interactive /\ ~noFlags(opts)) =>
    /\ pc # "resolved"
    /\ detected = {}
    /\ txState = "Pending"
    /\ NothingWritten

\* C5: a rollback in which a restore fails ends the run rejected with the
\* RollbackError, which no other run is rejected with: never resolved, never
\* the completion message, never the error of a cleanly rolled back failure;
\* a record is marked reverted only when its file was restored, and a run
\* that ends after a failed apply with a record still applied is that fatal
\* run.
C5_RollbackFailureIsFatal ==
  /\ txError.rollbackFailed => (txState = "RollingBack" /\ ApplyFailed)
  /\ (pc \in {"resolved", "rejected"} /\ txError.rollbackFailed) =>
       (pc = "rejected" /\ thrown.kind = "RollbackError" /\ "complete" \notin printed)
  /\ (pc = "rejected" /\ thrown.kind = "RollbackError") => txError.rollbackFailed
  /\ (pc \in {"resolved", "rejected"} /\ ApplyFailed /\ ~txError.rollbackFailed) =>
       (pc = "rejected" /\ txState = "RolledBack"
          /\ thrown.kind \in {"IOError", "ParseError", "ShapeError"})
  /\ \A i \in 1..Len(records) :
       ~records[i].applied => files[records[i].agent] = Restored(orig[records[i].agent])
  /\ (TxEnded /\ ApplyFailed /\ \E i \in 1..Len(records) : records[i].applied) =>
       txError.rollbackFailed

C5_Witness ==
  /\ pc = "rejected" /\ thrown.kind = "RollbackError"
  /\ \E i, j \in 1..Len(records) : records[i].applied /\ ~records[j].applied

TxStates == {"Pending", "Rendering", "Applying", "Committed", "RollingBack", "RolledBack"}

TxTransitions ==
  { << "Pending", "Rendering" >>, << "Rendering", "Applying" >>,
    << "Applying", "Committed" >>, << "Applying", "RollingBack" >>,
    << "RollingBack", "RolledBack" >> }

TxStateInv ==
  /\ txState \in TxStates
  /\ (txState = "Committed") =>
       /\ Len(records) = Len(targets)
       /\ \A i \in 1..Len(targets) :
            records[i].applied /\ files[targets[i]] = Applied(orig[targets[i]])
  /\ (txState \in {"Pending", "Rendering"}) => (NothingWritten /\ log = << >>)

\* C6: the transaction only moves Pending -> Rendering -> Applying ->
\* Committed, or Applying -> RollingBack -> RolledBack; Committed and
\* RolledBack are never left; it is Committed only with every target applied;
\* nothing is written in Pending or Rendering.
C6_StateMachine ==
  /\ []TxStateInv
  /\ [][txState' # txState => << txState, txState' >> \in TxTransitions]_vars

C6_Witness == txState = "RolledBack" /\ Len(records) = 2

C9_SaveIsAtomic ==
  /\ \A a \in Agents :
       /\ files[a].kind # "partial"
       /\ files[a] \in {orig[a], Applied(orig[a]), Restored(orig[a])}
  /\ (step \in {"save1", "save2", "save3"}) =>
       /\ files[cur.agent] =
            IF txState = "Applying" THEN orig[cur.agent] ELSE Applied(orig[cur.agent])
       /\ (step = "save3") => tmp[cur.agent] = cur.content
       /\ cur.content.kind = "doc"

C9_Witness ==
  /\ pc = "crashed"
  /\ tmp[cur.agent] = Partial
  /\ files[cur.agent] = orig[cur.agent] /\ Exists(orig[cur.agent])

\* The backup flag of the run is enabled: not given, or given as true.
BackupEnabled == opts.backup # "off"

\* C10: a backup file exists only when the backup flag is enabled and the
\* file existed before the run, and then it holds the bytes the file had
\* before its first mutation and was copied before the save; a record names a
\* backup path exactly when that copy was made.
C10_BackupPolicy ==
  \A a \in Agents :
    /\ Exists(backups[a]) => (BackupEnabled /\ Exists(orig[a]) /\ backups[a] = orig[a])
    /\ (files[a] # orig[a] /\ BackupEnabled /\ Exists(orig[a])) => backups[a] = orig[a]
    /\ \A p \in 1..Len(log) :
         (log[p] = << "save", a >> /\ BackupEnabled /\ Exists(orig[a])) =>
           \E q \in 1..(p - 1) : log[q] = << "backup", a >>
    /\ \A i \in 1..Len(records) :
         (records[i].agent = a) => (records[i].backupPath <=> Exists(backups[a]))
    /\ (cur.agent = a /\ txState = "Applying") => (cur.backupPath <=> Exists(backups[a]))

C10_Witness ==
  /\ txState = "Committed" /\ Len(records) = 2
  /\ \A i \in 1..2 : records[i].backupPath /\ backups[targets[i]] = orig[targets[i]]
                       /\ files[targets[i]] # orig[targets[i]]

\* The file that holds the new server entry and nothing else.
OnlyNewEntry == Serialize(Doc("none", "map", MapSet(EmptyMap, NewServerId, "new")))

\* C11: loading a file that does not exist does not fail: agents asked for by
\* name are configured although no file of theirs was detected, a load never
\* fails on an absent file, the record of such an agent holds no previous
\* document, its file holds only the new server entry while the record is
\* applied and is absent again once the record is reverted.
C11_LoadAbsentCreatesFile ==
  /\ ("noAgents" \in printed) => opts.agents = {}
  /\ (txError.kind \in {"ParseError", "ShapeError"}) => Exists(orig[txError.agent])
  /\ \A i \in 1..Len(records) :
       ~Exists(orig[records[i].agent]) =>
         /\ records[i].previousDocument = NoPrev
         /\ files[records[i].agent] = IF records[i].applied THEN OnlyNewEntry ELSE Absent

C11_Witness ==
  /\ opts.agents # {} /\ detected = {}
  /\ txState = "RollingBack" /\ Len(records) = 2
  /\ records[1].applied /\ files[records[1].agent] = OnlyNewEntry
  /\ ~records[2].applied /\ files[records[2].agent] = Absent
  /\ log[Len(log)] = << "delete", records[2].agent >>

(* ------------------------------------------------------------------ *)
(* merge on its own: a document and a sequence of merges into it       *)
(* ------------------------------------------------------------------ *)
\* The maps from some of the server ids to an earlier entry.
OldMaps == { [x \in S |-> "old"] : S \in SUBSET ServerIds }

MergeDocs ==
  { Doc(o, "map", m) : o \in {"none", "settings"}, m \in OldMaps }
  \cup { Doc(o, "absent", EmptyMap) : o \in {"none", "settings"} }

IdleOptions ==
  [transport |-> "http", endpoint |-> "", command |-> "", bearer |-> "",
   interactive |-> FALSE, dryRun |-> FALSE, yes |-> FALSE, backup |-> "unset",
   agents |-> {}]

\* No command is running.
Idle ==
  /\ opts = IdleOptions
  /\ pc = "idle"
  /\ thrown = NoError
  /\ printed = {}
  /\ detected = {}
  /\ files = [a \in Agents |-> Absent]
  /\ orig = files
  /\ tmp = [a \in Agents |-> Absent]
  /\ backups = [a \in Agents |-> Absent]
  /\ targets = << >>
  /\ txState = "Pending"
  /\ idx = 0
  /\ step = "none"
  /\ cur = NoCur
  /\ records = << >>
  /\ rbPos = 0
  /\ txError = NoTxError
  /\ log = << >>

InitMerge ==
  /\ Idle
  /\ document0 \in MergeDocs
  /\ document = document0
  /\ merges = << >>
  /\ NoCall

MergeStep ==
  /\ Len(merges) < MaxMerges
  /\ ~MergeFails(document)
  /\ \E sid \in ServerIds, e \in Entries :
       /\ document' = Merge(document, sid, e)
       /\ merges' = Append(merges, << sid, e >>)
  /\ UNCHANGED << opts, pc, thrown, printed, detected, orig, txVars, document0,
                  callVars >>

NextMerge == MergeStep

SpecMerge == InitMerge /\ [][NextMerge]_vars

MergedIds == { merges[i][1] : i \in 1..Len(merges) }

LastMerged(id) ==
  LET at == { i \in 1..Len(merges) : merges[i][1] = id }
      i == CHOOSE j \in at : \A k \in at : k <= j
  IN merges[i][2]

\* C8: after any sequence of merges the server map holds, under each merged
\* id, the entry merged last under it, and under every other id what it held
\* before; its ids are the original ids plus the merged ones; every other
\* top-level key is as it was.
C8_MergePreservesSiblings ==
  LET before == IF document0.shape = "map" THEN document0.servers ELSE EmptyMap IN
    IF merges = << >> THEN document = document0
    ELSE /\ document.shape = "map"
         /\ document.other = document0.other
         /\ DOMAIN document.servers = (DOMAIN before) \cup MergedIds
         /\ \A id \in DOMAIN document.servers :
              document.servers[id] = IF id \in MergedIds THEN LastMerged(id) ELSE before[id]

C8_Witness ==
  /\ Len(merges) = 3
  /\ DOMAIN document0.servers = {"A", "B"}
  /\ merges[1] = << "C", "old" >> /\ merges[2] = << "C", "new" >> /\ merges[3] = << "A", "new" >>
  /\ document.servers = [x \in {"A", "B", "C"} |-> IF x = "B" THEN "old" ELSE "new"]

(* ------------------------------------------------------------------ *)
(* renderers/mcp.ts: renderMcpServer                                   *)
(* ------------------------------------------------------------------ *)
\* A JavaScript value, as far as the renderer looks at it: its type, its
\* size (length of a string or an array, number of keys of an object, the
\* number itself) and its text.
Value(type, size, text) == [type |-> type, size |-> size, text |-> text]

Undefined == Value("undefined", 0, "")

Lit(text) == Value("string", Len(text), text)

\* if (v): undefined, the empty string and 0 are falsy; every array and
\* every object is truthy.
Truthy(v) ==
  CASE v.type = "undefined" -> FALSE
    [] v.type = "string" -> v.size > 0
    [] v.type = "number" -> v.size # 0
    [] OTHER -> TRUE

\* nonEmpty(obj): the object when it has a key.
nonEmpty(obj) ==
  IF ~Truthy(obj) THEN Undefined
  ELSE IF obj.size > 0 THEN obj ELSE Undefined

\* typeof v === 'number'
IsNumber(v) == v.type = "number"

\* ...(cond ? { key: val } : {})
Spread(cond, key, val) == IF cond THEN { << key, val >> } ELSE {}

\* The object literal with these properties.
Object(props) ==
  [k \in { p[1] : p \in props } |-> (CHOOSE p \in props : p[1] = k)[2]]

renderCursor(in) ==
  IF in.transport = "stdio"
    THEN Object(Spread(Truthy(in.command), "command", in.command)
                \cup Spread(Truthy(in.args), "args", in.args)
                \cup Spread(Truthy(in.env), "env", in.env))
  ELSE IF in.transport = "sse"
    THEN Object({ << "type", Lit("sse") >> }
                \cup Spread(Truthy(in.url), "url", in.url)
                \cup Spread(Truthy(nonEmpty(in.headers)), "headers", in.headers))
  ELSE Object({ << "type", Lit("http") >> }
              \cup Spread(Truthy(in.url), "url", in.url)
              \cup Spread(Truthy(nonEmpty(in.headers)), "headers", in.headers))

renderGeminiLikeCursor(in) == renderCursor(in)

renderGemini(in) ==
  IF in.transport = "stdio"
    THEN Object({ << "transport", Lit("stdio") >> }
                \cup Spread(Truthy(in.command), "command", in.command)
                \cup Spread(Truthy(in.args), "args", in.args)
                \cup Spread(Truthy(in.cwd), "cwd", in.cwd)
                \cup Spread(Truthy(nonEmpty(in.env)), "env", in.env)
                \cup Spread(IsNumber(in.timeout), "timeout", in.timeout))
  ELSE IF in.transport = "sse"
    THEN Object({ << "transport", Lit("sse") >> }
                \cup Spread(Truthy(in.url), "url", in.url)
                \cup Spread(Truthy(nonEmpty(in.headers)), "headers", in.headers)
                \cup Spread(Truthy(nonEmpty(in.env)), "env", in.env)
                \cup Spread(IsNumber(in.timeout), "timeout", in.timeout))
  ELSE Object(Spread(Truthy(in.url), "httpUrl", in.url)
              \cup Spread(Truthy(nonEmpty(in.headers)), "headers", in.headers)
              \cup Spread(Truthy(nonEmpty(in.env)), "env", in.env)
              \cup Spread(IsNumber(in.timeout), "timeout", in.timeout))

renderClaude(in) ==
  IF in.transport = "stdio"
    THEN Object(Spread(Truthy(in.command), "command", in.command)
                \cup Spread(Truthy(in.args), "args", in.args)
                \cup Spread(Truthy(nonEmpty(in.env)), "env", in.env))
  ELSE IF in.transport = "sse"
    THEN Object({ << "type", Lit("sse") >> }
                \cup Spread(Truthy(in.url), "url", in.url)
                \cup Spread(Truthy(nonEmpty(in.headers)), "headers", in.headers))
  ELSE Object({ << "type", Lit("http") >> }
              \cup Spread(Truthy(in.url), "url", in.url)
              \cup Spread(Truthy(nonEmpty(in.headers)), "headers", in.headers))

\* Fallback: generic shape.
renderFallback(in) ==
  IF in.transport = "stdio"
    THEN Object({ << "command", in.command >> }
                \cup Spread(Truthy(in.args), "args", in.args)
                \cup Spread(Truthy(nonEmpty(in.env)), "env", in.env))
  ELSE Object({ << "url", in.url >> }
              \cup Spread(Truthy(nonEmpty(in.headers)), "headers", in.headers))

renderServer(in) ==
  IF in.agent = "cursor" THEN renderCursor(in)
  ELSE IF in.agent = "gemini" THEN renderGemini(in)
  ELSE IF in.agent = "claude" THEN renderClaude(in)
  ELSE renderFallback(in)

\* return { mcpServers: { [serverId]: server } }
renderMcpServer(in) == [mcpServers |-> (in.serverId :> renderServer(in))]

\* The agent names: the three the renderer knows and one it does not.
RenderAgents == {"cursor", "gemini", "claude", "codex"}

\* The values of a string field, of args, of a mapping and of timeout: not
\* given, given empty, given with content.
Strings(text) == { Undefined, Lit(""), Lit(text) }

Arrays == { Undefined, Value("array", 0, "[]"), Value("array", 1, "[-y]") }

Mappings == { Undefined, Value("object", 0, "{}"), Value("object", 1, "{K: v}") }

Numbers == { Undefined, Value("number", 0, "0"), Value("number", 30000, "30000") }

RenderInputs ==
  [ agent : RenderAgents, serverId : {NewServerId}, transport : Transports,
    url : Strings("https://h/mcp/C"), headers : Mappings, command : Strings("npx"),
    args : Arrays, cwd : Strings("/srv"), env : Mappings, timeout : Numbers ]

\* Nothing but the call is going on: no command runs, no document is merged.
IdleStore ==
  /\ document = EmptyDoc
  /\ document0 = EmptyDoc
  /\ merges = << >>

InitRender ==
  /\ Idle
  /\ IdleStore
  /\ fn = "none"
  /\ input \in RenderInputs
  /\ output = << >>
  /\ heap = << >>
  /\ heap0 = << >>

\* One call of renderMcpServer(input).
Render ==
  /\ fn = "none"
  /\ fn' = "renderMcpServer"
  /\ output' = << renderMcpServer(input) >>
  /\ UNCHANGED << opts, pc, thrown, printed, detected, orig, txVars, storeVars,
                  input, heap, heap0 >>

NextRender == Render

SpecRender == InitRender /\ [][NextRender]_vars

\* The rendered entry, once rendered.
Rendered == fn = "renderMcpServer"
Server == output[1].mcpServers[input.serverId]

\* A value that is no value: undefined, the empty string, the empty list.
NoValue(v) == v.type = "undefined" \/ (v.type \in {"string", "array"} /\ v.size = 0)

\* C12 (as claimed): for every agent name and transport the rendered entry
\* has no field whose value is undefined, the empty string or the empty
\* argument list.
C12_NoEmptyField ==
  Rendered => \A k \in DOMAIN Server : ~NoValue(Server[k])

\* C13 (as claimed): for every agent and transport the rendered entry has a
\* headers field or an env field only when that mapping of the input has at
\* least one key.
C13_NoEmptyMapping ==
  Rendered =>
    /\ ("headers" \in DOMAIN Server) => (input.headers.type = "object" /\ input.headers.size > 0)
    /\ ("env" \in DOMAIN Server) => (input.env.type = "object" /\ input.env.size > 0)

\* The input field a field of the rendered entry is taken from.
FieldOf(k) == IF k = "httpUrl" THEN "url" ELSE k

\* C14: the entry is returned under mcpServers[serverId] and has exactly the
\* shape of its (agent, transport) pair: cursor and claude have type 'http'
\* or 'sse' with url (and headers) and, for stdio, command, args and env with
\* no discriminator; gemini has httpUrl with neither type nor transport for
\* http, transport 'sse' with url for sse, transport 'stdio' with command,
\* args and cwd for stdio (and headers, env, timeout); timeout and cwd occur
\* with gemini only; any other agent has command, args, env or url, headers;
\* every field other than the discriminator holds the value of the input, and
\* a url or command that was given is there.
C14_ExactShapes ==
  Rendered =>
    LET a == input.agent
        t == input.transport
        keys == DOMAIN Server
    IN /\ DOMAIN output[1] = {"mcpServers"}
       /\ DOMAIN output[1].mcpServers = {input.serverId}
       /\ (a \in {"cursor", "claude"} /\ t # "stdio") =>
            /\ keys \subseteq {"type", "url", "headers"}
            /\ "type" \in keys /\ Server["type"] = Lit(t)
            /\ Truthy(input.url) => "url" \in keys
       /\ (a \in {"cursor", "claude"} /\ t = "stdio") =>
            /\ keys \subseteq {"command", "args", "env"}
            /\ Truthy(input.command) => "command" \in keys
       /\ (a = "gemini" /\ t = "http") =>
            /\ keys \subseteq {"httpUrl", "headers", "env", "timeout"}
            /\ Truthy(input.url) => "httpUrl" \in keys
       /\ (a = "gemini" /\ t = "sse") =>
            /\ keys \subseteq {"transport", "url", "headers", "env", "timeout"}
            /\ "transport" \in keys /\ Server["transport"] = Lit("sse")
            /\ Truthy(input.url) => "url" \in keys
       /\ (a = "gemini" /\ t = "stdio") =>
            /\ keys \subseteq {"transport", "command", "args", "cwd", "env", "timeout"}
            /\ "transport" \in keys /\ Server["transport"] = Lit("stdio")
            /\ Truthy(input.command) => "command" \in keys
            /\ Truthy(input.cwd) => "cwd" \in keys
       /\ (a \notin {"cursor", "claude", "gemini"}) =>
            keys \subseteq (IF t = "stdio" THEN {"command", "args", "env"} ELSE {"url", "headers"})
       /\ (a # "gemini") => (keys \cap {"timeout", "cwd"} = {})
       /\ (a = "gemini") => (IsNumber(input.timeout) <=> "timeout" \in keys)
       /\ \A k \in keys \ {"type", "transport"} : Server[k] = input[FieldOf(k)]

C14_Witness ==
  /\ Rendered
  /\ input.agent = "gemini" /\ input.transport = "http"
  /\ DOMAIN Server = {"httpUrl", "headers", "env", "timeout"}
  /\ Server["httpUrl"] = Lit("https://h/mcp/C")

(* ------------------------------------------------------------------ *)
(* Strings, character by character, and the mask of a secret           *)
(* ------------------------------------------------------------------ *)
\* The longest secret that is masked.
MaxSecretLen == 6

UpperCase == << "A", "B", "C", "D", "E", "F", "G", "H", "I", "J", "K", "L", "M", "N", "O", "P", "Q", "R", "S", "T", "U", "V", "W", "X", "Y", "Z" >>

LowerCase == << "a", "b", "c", "d", "e", "f", "g", "h", "i", "j", "k", "l", "m", "n", "o", "p", "q", "r", "s", "t", "u", "v", "w", "x", "y", "z" >>

\* c.toLowerCase(), and the /i flag of a regular expression
LowerChar(c) ==
  IF \E i \in 1..26 : UpperCase[i] = c
    THEN LowerCase[CHOOSE i \in 1..26 : UpperCase[i] = c]
  ELSE c

Lower(s) == [i \in 1..Len(s) |-> LowerChar(s[i])]

\* s.includes(w)
Contains(s, w) ==
  \E i \in 1..(Len(s) - Len(w) + 1) : SubSeq(s, i, i + Len(w) - 1) = w

\* v.slice(-n): the last n characters, all of v when it is shorter.
SliceLast(v, n) == SubSeq(v, IF Len(v) > n THEN Len(v) - n + 1 ELSE 1, Len(v))

Stars == << "*", "*", "*", "*" >>

\* status.ts maskLast4 on a string: `****${v.slice(-4)}`, v itself when empty
maskLast5(v) == IF Len(v) = 0 THEN v ELSE Stars \o SliceLast(v, 5)

maskLast4(v) == IF Len(v) = 0 THEN v ELSE Stars \o SliceLast(v, 4)

\* configure.ts redact(value): '' for no value
redact(value) == IF Len(value) = 0 THEN << >> ELSE Stars \o SliceLast(value, 4)

\* interactive.ts confirmConfiguration: `****${token.slice(-4)}`
maskToken(token) == Stars \o SliceLast(token, 4)

\* The secrets: the strings of at most MaxSecretLen characters over a letter,
\* another letter and the character of the mask.
SecretChars == {"a", "b", "*"}

Secrets == UNION { [1..n -> SecretChars] : n \in 0..MaxSecretLen }

InitMask ==
  /\ Idle
  /\ IdleStore
  /\ fn = "none"
  /\ input \in Secrets
  /\ output = << >>
  /\ heap = << >>
  /\ heap0 = << >>

\* status.ts: a sensitive value is masked.
MaskStatus ==
  /\ fn = "none"
  /\ fn' = "maskLast4"
  /\ output' = << maskLast4(input) >>
  /\ UNCHANGED << opts, pc, thrown, printed, detected, orig, txVars, storeVars,
                  input, heap, heap0 >>

\* configure.ts: the access key is printed in the preview.
MaskDryRun ==
  /\ fn = "none"
  /\ fn' = "redact"
  /\ output' = << redact(input) >>
  /\ UNCHANGED << opts, pc, thrown, printed, detected, orig, txVars, storeVars,
                  input, heap, heap0 >>

\* interactive.ts: if (this.options.bearer) the token is printed in the summary.
MaskSummary ==
  /\ fn = "none"
  /\ Len(input) > 0
  /\ fn' = "maskToken"
  /\ output' = << maskToken(input) >>
  /\ UNCHANGED << opts, pc, thrown, printed, detected, orig, txVars, storeVars,
                  input, heap, heap0 >>

NextMask ==
  \/ MaskStatus
  \/ MaskDryRun
  \/ MaskSummary

SpecMask == InitMask /\ [][NextMask]_vars

\* The substrings of v of 4 characters or more.
LongSubstrings(v) ==
  { SubSeq(v, i, j) : i \in 1..Len(v), j \in 1..Len(v) } \ { w \in { SubSeq(v, i, j) : i \in 1..Len(v), j \in 1..Len(v) } : Len(w) < 4 }

IsMasked == fn \in {"maskLast4", "redact", "maskToken"}

\* C16 (as claimed): for every secret v of 4 characters or more the masked
\* value ends with the last 4 characters of v and contains no other substring
\* of v of 4 characters or more.
C16_MaskingLaw ==
  (IsMasked /\ Len(input) >= 4) =>
    /\ SliceLast(output[1], 4) = SliceLast(input, 4)
    /\ \A w \in LongSubstrings(input) :
         w # SliceLast(input, 4) => ~Contains(output[1], w)

\* C16 (amended): for every secret v of 4 characters or more the masked value
\* is "****" followed by the last 4 characters of v, and when v holds no "*"
\* it contains no other substring of v of 4 characters or more.
C16_MaskingLawWithoutStars ==
  (IsMasked /\ Len(input) >= 4) =>
    /\ output[1] = Stars \o SliceLast(input, 4)
    /\ (\A i \in 1..Len(input) : input[i] # "*") =>
         \A w \in LongSubstrings(input) :
           w # SliceLast(input, 4) => ~Contains(output[1], w)

C16_Witness ==
  /\ fn = "maskLast4"
  /\ input = << "a", "b", "b", "a", "a", "b" >>
  /\ output[1] = << "*", "*", "*", "*", "b", "a", "a", "b" >>

(* ------------------------------------------------------------------ *)
(* utils/proxy.ts: buildSupergatewayArgs and redactForLogs             *)
(* ------------------------------------------------------------------ *)
\* \s, over the characters that occur: the strings hold no line break.
IsSpace(c) == c = " "

\* s has lit at position i, ignoring case (lit is in lower case).
HasAt(s, i, lit) ==
  /\ i >= 1 /\ i + Len(lit) - 1 <= Len(s)
  /\ Lower(SubSeq(s, i, i + Len(lit) - 1)) = lit

\* The first position from i on that holds no space, Len(s) + 1 if none.
SkipSpaces(s, i) ==
  IF i > Len(s) THEN Len(s) + 1
  ELSE CHOOSE k \in i..(Len(s) + 1) :
         /\ k = Len(s) + 1 \/ ~IsSpace(s[k])
         /\ \A m \in i..(k - 1) : IsSpace(s[m])

\* The first position from i on that holds a space or a quote, Len(s) + 1 if none.
SkipToken(s, i) ==
  IF i > Len(s) THEN Len(s) + 1
  ELSE CHOOSE k \in i..(Len(s) + 1) :
         /\ k = Len(s) + 1 \/ IsSpace(s[k]) \/ s[k] \in {"\"", "'"}
         /\ \A m \in i..(k - 1) : ~IsSpace(s[m]) /\ s[m] \notin {"\"", "'"}

\* s.replace(/(--oauth2Bearer\s+)([^\s"']+)/gi, '$1<redacted:bearer>'), from i
\* on: the flag, one space or more, and a token of one character or more.
RECURSIVE redactBearerFlag(_, _)
redactBearerFlag(s, i) ==
  LET token(x) == SkipSpaces(s, x + 14)
      found == { x \in i..Len(s) :
                   /\ HasAt(s, x, << "-", "-", "o", "a", "u", "t", "h", "2", "b", "e", "a", "r", "e", "r" >>)
                   /\ token(x) > x + 14
                   /\ SkipToken(s, token(x)) > token(x) }
  IN IF found = {} THEN SubSeq(s, i, Len(s))
     ELSE LET x == CHOOSE y \in found : \A z \in found : y <= z
          IN SubSeq(s, i, token(x) - 1) \o << "<", "r", "e", "d", "a", "c", "t", "e", "d", ":", "b", "e", "a", "r", "e", "r", ">" >>
               \o redactBearerFlag(s, SkipToken(s, token(x)))

\* s.replace(/(name\s*:\s*)(.+?)(?=$|\r|\n)/gi, '$1<redacted:...>'): the first
\* name that a colon and at least one more character follow; its value runs
\* to the end of the string.
redactHeaderValue(s, name, placeholder) ==
  LET colon(i) == SkipSpaces(s, i + Len(name))
      found == { i \in 1..Len(s) :
                   /\ HasAt(s, i, name)
                   /\ colon(i) < Len(s)
                   /\ s[colon(i)] = ":" }
  IN IF found = {} THEN s
     ELSE LET i == CHOOSE x \in found : \A y \in found : x <= y
              v == SkipSpaces(s, colon(i) + 1)
          IN SubSeq(s, 1, IF v <= Len(s) THEN v - 1 ELSE Len(s) - 1) \o placeholder

SENSITIVE_HEADER_KEYS ==
  << << "a", "u", "t", "h", "o", "r", "i", "z", "a", "t", "i", "o", "n" >>, << "x", "-", "a", "p", "i", "-", "k", "e", "y" >>, << "x", "-", "a", "u", "t", "h", "-", "t", "o", "k", "e", "n" >>, << "x", "-", "a", "c", "c", "e", "s", "s", "-", "t", "o", "k", "e", "n" >>,
     << "p", "r", "o", "x", "y", "-", "a", "u", "t", "h", "o", "r", "i", "z", "a", "t", "i", "o", "n" >> >>

\* `<redacted:${k}>`
Redacted(k) == << "<", "r", "e", "d", "a", "c", "t", "e", "d", ":" >> \o k \o << ">" >>

\* for (const k of SENSITIVE_HEADER_KEYS) out = out.replace(...), from the n-th key on
RECURSIVE redactSensitiveHeaders(_, _)
redactSensitiveHeaders(s, n) ==
  IF n > Len(SENSITIVE_HEADER_KEYS) THEN s
  ELSE redactSensitiveHeaders(
         redactHeaderValue(s, SENSITIVE_HEADER_KEYS[n], Redacted(SENSITIVE_HEADER_KEYS[n])), n + 1)

redactString(s) ==
  redactSensitiveHeaders(
    redactHeaderValue(redactBearerFlag(s, 1), << "a", "u", "t", "h", "o", "r", "i", "z", "a", "t", "i", "o", "n" >>, Redacted(<< "a", "u", "t", "h", "o", "r", "i", "z", "a", "t", "i", "o", "n" >>)), 1)

\* The most headers given to the proxy.
MaxHeaders == 2

\* key.trim()
Trim(k) ==
  LET ink == { i \in 1..Len(k) : ~IsSpace(k[i]) }
  IN IF ink = {} THEN << >>
     ELSE SubSeq(k, CHOOSE i \in ink : \A j \in ink : i <= j,
                    CHOOSE i \in ink : \A j \in ink : j <= i)

\* new URL(remoteUrl) parses and its protocol starts with 'http'
IsHttpUrl(u) == HasAt(u, 1, << "h", "t", "t", "p" >>) /\ Contains(u, << ":", "/", "/" >>)

\* for (const h of headers): '--header', `${key}: ${value}`, empty keys ignored
RECURSIVE headerArgs(_, _)
headerArgs(hs, n) ==
  IF n > Len(hs) THEN << >>
  ELSE (IF Trim(hs[n].key) = << >> THEN << >>
        ELSE << << "-", "-", "h", "e", "a", "d", "e", "r" >>, Trim(hs[n].key) \o << ":", " " >> \o hs[n].value >>)
       \o headerArgs(hs, n + 1)

\* buildSupergatewayArgs(opts): the argv, or an Error thrown
buildSupergatewayArgs(o) ==
  IF o.transport \notin {"http", "sse"} THEN [threw |-> TRUE, argv |-> << >>]
  ELSE IF ~IsHttpUrl(o.remoteUrl) THEN [threw |-> TRUE, argv |-> << >>]
  ELSE [threw |-> FALSE,
        argv |-> << IF o.transport = "http" THEN << "-", "-", "s", "t", "r", "e", "a", "m", "a", "b", "l", "e", "H", "t", "t", "p" >> ELSE << "-", "-", "s", "s", "e" >>,
                    o.remoteUrl >>
                 \o (IF Len(o.bearer) > 0 THEN << << "-", "-", "o", "a", "u", "t", "h", "2", "B", "e", "a", "r", "e", "r" >>, o.bearer >> ELSE << >>)
                 \o headerArgs(o.headers, 1)]

\* redactForLogs(x) for an argv x, from its i-th element on
RECURSIVE redactArgv(_, _)
redactArgv(x, i) ==
  IF i > Len(x) THEN << >>
  ELSE IF Lower(x[i]) = << "-", "-", "o", "a", "u", "t", "h", "2", "b", "e", "a", "r", "e", "r" >>
         THEN (IF i + 1 <= Len(x)
                 THEN << x[i], << "<", "r", "e", "d", "a", "c", "t", "e", "d", ":", "b", "e", "a", "r", "e", "r", ">" >> >> \o redactArgv(x, i + 2)
               \* no token after the flag: the flag is pushed, and pushed
               \* again by the push that ends the loop body
               ELSE << x[i], redactString(x[i]) >> \o redactArgv(x, i + 1))
       ELSE << redactString(x[i]) >> \o redactArgv(x, i + 1)

\* argv.join(' ')
RECURSIVE Join(_, _)
Join(x, i) ==
  IF i > Len(x) THEN << >>
  ELSE IF i = Len(x) THEN x[i]
  ELSE x[i] \o << " " >> \o Join(x, i + 1)

\* The headers that are given: sensitive ones, one that is not, one whose key
\* is padded and one whose key is blank.
ProxyHeaders ==
  { [key |-> << "A", "u", "t", "h", "o", "r", "i", "z", "a", "t", "i", "o", "n" >>, value |-> << "B", "e", "a", "r", "e", "r", " ", "t", "o", "k", "1" >>],
    [key |-> << "X", "-", "A", "p", "i", "-", "K", "e", "y" >>, value |-> << "k", "3", "y", "9" >>],
    [key |-> << " ", "x", "-", "a", "u", "t", "h", "-", "t", "o", "k", "e", "n", " " >>, value |-> << "s", "3", "c", "r" >>],
    [key |-> << "A", "c", "c", "e", "p", "t" >>, value |-> << "j", "s", "o", "n" >>],
    [key |-> << " ", " " >>, value |-> << "z", "z" >>] }

ProxyOpts ==
  [ remoteUrl : { << "h", "t", "t", "p", "s", ":", "/", "/", "h", "/", "m", "c", "p" >>, << "f", "t", "p", ":", "/", "/", "h" >> },
    transport : Transports,
    bearer : { << >>, << "t", "o", "k", "2" >>, << "\"", "q", "7", "x" >>, << "t", "0", "k", "\"", "n", "2" >> },
    headers : UNION { [1..n -> ProxyHeaders] : n \in 0..MaxHeaders } ]

InitLogs ==
  /\ Idle
  /\ IdleStore
  /\ fn = "none"
  /\ input \in ProxyOpts
  /\ output = << >>
  /\ heap = << >>
  /\ heap0 = << >>

\* buildSupergatewayArgs(input)
BuildArgs ==
  /\ fn = "none"
  /\ fn' = "buildSupergatewayArgs"
  /\ output' = << buildSupergatewayArgs(input) >>
  /\ UNCHANGED << opts, pc, thrown, printed, detected, orig, txVars, storeVars,
                  input, heap, heap0 >>

\* redactForLogs(argv)
RedactArgv ==
  /\ fn = "buildSupergatewayArgs" /\ ~output[1].threw
  /\ fn' = "redactForLogs(argv)"
  /\ output' = Append(output, redactArgv(output[1].argv, 1))
  /\ UNCHANGED << opts, pc, thrown, printed, detected, orig, txVars, storeVars,
                  input, heap, heap0 >>

\* redactForLogs(argv.join(' '))
RedactJoined ==
  /\ fn = "buildSupergatewayArgs" /\ ~output[1].threw
  /\ fn' = "redactForLogs(string)"
  /\ output' = Append(output, redactString(Join(output[1].argv, 1)))
  /\ UNCHANGED << opts, pc, thrown, printed, detected, orig, txVars, storeVars,
                  input, heap, heap0 >>

NextLogs ==
  \/ BuildArgs
  \/ RedactArgv
  \/ RedactJoined

SpecLogs == InitLogs /\ [][NextLogs]_vars

\* The redacted output as one text, and the argv it was made from.
LoggedArgv == output[1].argv
LoggedText == IF fn = "redactForLogs(argv)" THEN Join(output[2], 1) ELSE output[2]
WasLogged == fn \in {"redactForLogs(argv)", "redactForLogs(string)"}

Occurrences(text, w) == Cardinality({ i \in 1..Len(text) : HasAt(text, i, w) })

GivenHeaders == { i \in 1..Len(input.headers) : Trim(input.headers[i].key) # << >> }
SensitiveGiven ==
  { i \in GivenHeaders :
      \E n \in 1..Len(SENSITIVE_HEADER_KEYS) :
        Lower(Trim(input.headers[i].key)) = SENSITIVE_HEADER_KEYS[n] }

SecretsHidden ==
  /\ Len(input.bearer) > 0 => ~Contains(LoggedText, input.bearer)
  /\ \A i \in SensitiveGiven : ~Contains(LoggedText, input.headers[i].value)

NamesVisible ==
  /\ \A f \in { << "-", "-", "s", "t", "r", "e", "a", "m", "a", "b", "l", "e", "H", "t", "t", "p" >>, << "-", "-", "s", "s", "e" >>, << "-", "-", "o", "a", "u", "t", "h", "2", "B", "e", "a", "r", "e", "r" >>, << "-", "-", "h", "e", "a", "d", "e", "r" >> } :
       Occurrences(LoggedText, f) = Occurrences(Join(LoggedArgv, 1), f)
  /\ \A i \in GivenHeaders :
       Contains(LoggedText, Trim(input.headers[i].key) \o << ":" >>)

\* C20: in what redactForLogs returns for an argv of buildSupergatewayArgs, and
\* for that argv joined into one string, the bearer token and the value of
\* every sensitive header do not appear, and the flag names and the header
\* names are still there.
C20_SecretsHiddenNamesVisible == WasLogged => (SecretsHidden /\ NamesVisible)

\* ---------------------------------------------------------------------------
\* Objects. heap[r] is the object with reference r: a function from its keys
\* to values; a value is a string, a number or a reference to an object.
Str(chars) == [type |-> "string", chars |-> chars, ref |-> 0]
Num == [type |-> "number", chars |-> << >>, ref |-> 0]
Ref(r) == [type |-> "object", chars |-> << >>, ref |-> r]

\* The objects reached from those of S, S included.
RECURSIVE Reach(_, _)
Reach(h, S) ==
  LET refs(r) == { h[r][k].ref : k \in { k \in DOMAIN h[r] : h[r][k].type = "object" } }
      more == S \cup UNION { refs(r) : r \in S }
  IN IF more = S THEN S ELSE Reach(h, more)

\* structuredClone(v): a copy of every object reached from r, appended to the
\* heap; the copy of r is at `ref`.
structuredCloneSafe(h, r) ==
  LET old == Reach(h, {r})
      copy(x) == Len(h) + Cardinality({ y \in old : y <= x })
      made(n) == CHOOSE x \in old : copy(x) = n
      new == [n \in 1..(Len(h) + Cardinality(old)) |->
                IF n <= Len(h) THEN h[n]
                ELSE [k \in DOMAIN h[made(n)] |->
                        IF h[made(n)][k].type = "object"
                          THEN Ref(copy(h[made(n)][k].ref))
                        ELSE h[made(n)][k]]]
  IN [heap |-> new, ref |-> copy(r)]

\* /^(authorization|access[-_]?key|api[-_]?key|token|secret|password|pass)$/i
SENSITIVE_KEYS(k) ==
  LET l == Lower(k)
      optKey(word) ==
        /\ HasAt(l, 1, word)
        /\ SubSeq(l, Len(word) + 1, Len(l)) \in { << "k", "e", "y" >>, << "-", "k", "e", "y" >>, << "_", "k", "e", "y" >> }
  IN IF l \in { << "a", "u", "t", "h", "o", "r", "i", "z", "a", "t", "i", "o", "n" >>, << "t", "o", "k", "e", "n" >>, << "s", "e", "c", "r", "e", "t" >>, << "p", "a", "s", "s", "w", "o", "r", "d" >>, << "p", "a", "s", "s" >> } THEN TRUE
     ELSE IF optKey(<< "a", "c", "c", "e", "s", "s" >>) THEN TRUE
     ELSE optKey(<< "a", "p", "i" >>)

\* /(token|secret|key|password|pass|auth)/i
ENV_SENSITIVE_Anchored(k) ==
  Lower(k) \in { << "t", "o", "k", "e", "n" >>, << "s", "e", "c", "r", "e", "t" >>, << "k", "e", "y" >>, << "p", "a", "s", "s", "w", "o", "r", "d" >>, << "p", "a", "s", "s" >>, << "a", "u", "t", "h" >> }

ENV_SENSITIVE(k) ==
  \E w \in { << "t", "o", "k", "e", "n" >>, << "s", "e", "c", "r", "e", "t" >>, << "k", "e", "y" >>, << "p", "a", "s", "s", "w", "o", "r", "d" >>, << "p", "a", "s", "s" >>, << "a", "u", "t", "h" >> } :
    \E i \in 1..Len(k) : HasAt(k, i, w)

\* obj[k] = maskLast4(v) for the keys given: a string that is not empty is
\* masked, every other value is returned as it is.
dropEntries(obj, keys) == [k \in DOMAIN obj \ keys |-> obj[k]]

maskEntries(obj, keys) ==
  [k \in DOMAIN obj |->
     IF k \in keys /\ obj[k].type = "string" THEN Str(maskLast4(obj[k].chars))
     ELSE obj[k]]

\* redactSensitive(obj): the heap after the call and the reference returned.
redactSensitive(h, r) ==
  LET c == structuredCloneSafe(h, r)
      clone == c.ref
      h1 == c.heap
      HasObject(obj, key) ==
        IF key \in DOMAIN obj THEN obj[key].type = "object" ELSE FALSE
      pass(hh, key, exact) ==
        IF HasObject(hh[clone], key)
          THEN [hh EXCEPT ![hh[clone][key].ref] =
                  maskEntries(@, { k \in DOMAIN @ :
                                     IF exact THEN SENSITIVE_KEYS(k) ELSE ENV_SENSITIVE(k) })]
        ELSE hh
      h2 == pass(h1, << "h", "e", "a", "d", "e", "r", "s" >>, TRUE)
      h3 == pass(h2, << "e", "n", "v" >>, FALSE)
      h4 == [h3 EXCEPT ![clone] = maskEntries(@, { k \in DOMAIN @ : SENSITIVE_KEYS(k) })]
  IN [heap |-> h4, ref |-> clone]

\* /^Bearer\s+\S+$/i
IsBearerForm(v) ==
  /\ HasAt(v, 1, << "b", "e", "a", "r", "e", "r" >>)
  /\ Len(v) >= 7
  /\ IsSpace(v[7])
  /\ SkipSpaces(v, 7) <= Len(v)
  /\ \A i \in SkipSpaces(v, 7)..Len(v) : ~IsSpace(v[i])

\* redactForLogs(x) for an object x: clone = { ...x }, then walk(clone), which
\* assigns into clone and into every object reached from it.
redactObject(h, r) ==
  LET clone == Len(h) + 1
      h1 == Append(h, h[r])
      walked == Reach(h1, {clone})
      \* what obj[k] is set to for a string v
      walkString(k, v) ==
        IF Lower(k) = << "a", "u", "t", "h", "o", "r", "i", "z", "a", "t", "i", "o", "n" >>
          THEN (IF IsBearerForm(v) THEN << "B", "e", "a", "r", "e", "r", " ", "<", "r", "e", "d", "a", "c", "t", "e", "d", ":", "a", "u", "t", "h", "o", "r", "i", "z", "a", "t", "i", "o", "n", ">" >>
                ELSE << "<", "r", "e", "d", "a", "c", "t", "e", "d", ":", "a", "u", "t", "h", "o", "r", "i", "z", "a", "t", "i", "o", "n", ">" >>)
        ELSE IF \E n \in 1..Len(SENSITIVE_HEADER_KEYS) : SENSITIVE_HEADER_KEYS[n] = Lower(k)
          THEN Redacted(Lower(k))
        ELSE IF IsBearerForm(v) THEN << "B", "e", "a", "r", "e", "r", " ", "<", "r", "e", "d", "a", "c", "t", "e", "d", ":", "a", "u", "t", "h", "o", "r", "i", "z", "a", "t", "i", "o", "n", ">" >>
        ELSE redactString(v)
  IN [heap |-> [x \in 1..Len(h1) |->
                  IF x \in walked
                    THEN [k \in DOMAIN h1[x] |->
                            IF h1[x][k].type = "string"
                              THEN Str(walkString(k, h1[x][k].chars))
                            ELSE h1[x][k]]
                  ELSE h1[x]],
      ref |-> clone]

\* The most keys of a server entry beside headers and env, and the most
\* calls of redactSensitive in a row, each on what the one before returned.
MaxTopKeys == 2
MaxCalls == 2

\* Server entries: a few fields, with or without a headers and an env object.
SmallObjects(keys, values, most) ==
  UNION { [K -> values] : K \in { K \in SUBSET keys : Cardinality(K) <= most } }

InitRedact ==
  LET TopObjects ==
        SmallObjects({ << "T", "o", "k", "e", "n" >>, << "k", "e", "y" >>, << "a", "p", "i", "_", "k", "e", "y" >> },
                     { Str(<< >>), Str(<< "a", "b" >>), Str(<< "a", "b", "c", "d", "e", "f" >>), Num }, MaxTopKeys)
      HeaderObjects ==
        { << >>, << (<< "a", "u", "t", "h" >> :> Ref(3)), (<< "t", "o", "k", "e", "n" >> :> Str(<< "a", "b", "c", "d", "e", "f" >>)) >> }
        \cup { << obj >> :
                 obj \in SmallObjects({ << "A", "u", "t", "h", "o", "r", "i", "z", "a", "t", "i", "o", "n" >>, << "X", "-", "A", "p", "i", "-", "K", "e", "y" >>, << "p", "a", "s", "s" >> },
                                      { Str(<< >>), Str(<< "a", "b" >>), Str(<< "B", "e", "a", "r", "e", "r", " ", "a", "b", "c", "d", "e", "f" >>) }, 1) }
      EnvObjects ==
        { << >> }
        \cup { << obj >> :
                 obj \in SmallObjects({ << "M", "Y", "_", "A", "P", "I", "_", "T", "O", "K", "E", "N" >>, << "P", "A", "T", "H" >>, << "a", "u", "t", "h" >> },
                                      { Str(<< "a", "b" >>), Str(<< "a", "b", "c", "d", "e", "f" >>) }, 1) }
      \* The heap that holds the entry: the entry at 1, its headers from 2
      \* on, its env after them.
      EntryHeap(top, hd, env) ==
        LET given == DOMAIN top
                     \cup (IF hd # << >> THEN { << "h", "e", "a", "d", "e", "r", "s" >> } ELSE {})
                     \cup (IF env # << >> THEN { << "e", "n", "v" >> } ELSE {})
        IN << [k \in given |->
                 IF k = << "h", "e", "a", "d", "e", "r", "s" >> THEN Ref(2)
                 ELSE IF k = << "e", "n", "v" >> THEN Ref(Len(hd) + 2)
                 ELSE top[k]] >> \o hd \o env
  IN /\ Idle
     /\ IdleStore
     /\ fn = "none"
     /\ input = 1
     /\ output = << >>
     /\ heap \in { EntryHeap(top, hd, env) :
                     top \in TopObjects, hd \in HeaderObjects, env \in EnvObjects }
     /\ heap0 = heap

\* redactSensitive(x), x the entry or what the call before returned
RedactSensitive ==
  /\ fn \in {"none", "redactSensitive"}
  /\ Len(output) < MaxCalls
  /\ LET res == redactSensitive(heap, IF output = << >> THEN input ELSE output[Len(output)])
     IN /\ heap' = res.heap
        /\ output' = Append(output, res.ref)
  /\ fn' = "redactSensitive"
  /\ UNCHANGED << opts, pc, thrown, printed, detected, orig, txVars, storeVars,
                  input, heap0 >>

\* redactForLogs(x), x the entry
RedactObject ==
  /\ fn = "none"
  /\ LET res == redactObject(heap, input)
     IN /\ heap' = res.heap
        /\ output' = << res.ref >>
  /\ fn' = "redactForLogs(object)"
  /\ UNCHANGED << opts, pc, thrown, printed, detected, orig, txVars, storeVars,
                  input, heap0 >>

NextRedact ==
  \/ RedactSensitive
  \/ RedactObject

SpecRedact == InitRedact /\ [][NextRedact]_vars

\* The object at r with everything in it, as one value.
RECURSIVE Tree(_, _)
Tree(h, r) ==
  [k \in DOMAIN h[r] |->
     IF h[r][k].type = "object"
       THEN [type |-> "object", props |-> Tree(h, h[r][k].ref)]
     ELSE [type |-> h[r][k].type, chars |-> h[r][k].chars]]

\* The i-th call of redactSensitive was made on Given(i) and returned output[i].
Given(i) == IF i = 1 THEN input ELSE output[i - 1]
Calls == IF fn = "redactSensitive" THEN 1..Len(output) ELSE {}

\* C15: redactSensitive(redactSensitive(x)) equals redactSensitive(x), for
\* sensitive values of every length.
C15_Idempotent ==
  \A i \in Calls : i > 1 => Tree(heap, output[i]) = Tree(heap, output[i - 1])

\* C17: after redactSensitive(x) or redactForLogs(x) has returned, x and every
\* object inside x hold the values they held before the call.
C17_InputUntouched ==
  fn # "none" => \A r \in 1..Len(heap0) : heap[r] = heap0[r]

\* The keys of the object at r and of everything in it.
RECURSIVE Shape(_, _)
Shape(h, r) ==
  [k \in DOMAIN h[r] |->
     IF h[r][k].type = "object"
       THEN [type |-> "object", props |-> Shape(h, h[r][k].ref)]
     ELSE [type |-> h[r][k].type]]

\* C18: what redactSensitive returns has, at every level, the keys of what it
\* was given; only values differ.
C18_KeysPreserved ==
  \A i \in Calls : Shape(heap, output[i]) = Shape(heap, Given(i))

C18_Witness ==
  /\ fn = "redactSensitive"
  /\ << "h", "e", "a", "d", "e", "r", "s" >> \in DOMAIN heap[input]
  /\ Tree(heap, output[1]) # Tree(heap, input)
  /\ Shape(heap, output[1]) = Shape(heap, input)

\* The names of the claim: the exact names, and the words looked for in the
\* names of environment variables.
NamedSensitive(k) ==
  Lower(k) \in { << "a", "u", "t", "h", "o", "r", "i", "z", "a", "t", "i", "o", "n" >>, << "a", "c", "c", "e", "s", "s", "k", "e", "y" >>, << "a", "c", "c", "e", "s", "s", "-", "k", "e", "y" >>, << "a", "c", "c", "e", "s", "s", "_", "k", "e", "y" >>,
                 << "a", "p", "i", "k", "e", "y" >>, << "a", "p", "i", "-", "k", "e", "y" >>, << "a", "p", "i", "_", "k", "e", "y" >>, << "t", "o", "k", "e", "n" >>, << "s", "e", "c", "r", "e", "t" >>,
                 << "p", "a", "s", "s", "w", "o", "r", "d" >>, << "p", "a", "s", "s" >> }

NamedInEnv(k) ==
  \E w \in { << "t", "o", "k", "e", "n" >>, << "s", "e", "c", "r", "e", "t" >>, << "k", "e", "y" >>, << "p", "a", "s", "s", "w", "o", "r", "d" >>, << "p", "a", "s", "s" >>, << "a", "u", "t", "h" >> } :
    Contains(Lower(k), w)

\* Every value of the object at `out` is the mask of the value at `in` when
\* its key is named and it is a string that `masks` covers, and the value at
\* `in` otherwise; an object in it is the same inside, but for those under
\* the keys of `own`, which have their own rule.
MaskedAs(in, out, named(_), masks(_), own) ==
  \A k \in DOMAIN heap[in] :
    IF heap[in][k].type = "object"
      THEN k \notin own => Tree(heap, heap[out][k].ref) = Tree(heap, heap[in][k].ref)
    ELSE heap[out][k] =
           (IF named(k) /\ heap[in][k].type = "string" /\ masks(heap[in][k].chars)
              THEN Str(Stars \o SliceLast(heap[in][k].chars, 4))
            ELSE heap[in][k])

MasksExactly(masks(_)) ==
  \A i \in Calls :
    \A k \in DOMAIN heap[Given(i)] :
      IF k = << "h", "e", "a", "d", "e", "r", "s" >> /\ heap[Given(i)][k].type = "object"
        THEN MaskedAs(heap[Given(i)][k].ref, heap[output[i]][k].ref, NamedSensitive, masks, {})
      ELSE IF k = << "e", "n", "v" >> /\ heap[Given(i)][k].type = "object"
        THEN MaskedAs(heap[Given(i)][k].ref, heap[output[i]][k].ref, NamedInEnv, masks, {})
      ELSE TRUE

AnyString(v) == TRUE
NotEmpty(v) == Len(v) > 0

\* C19 as stated: redactSensitive masks the string values at the top level
\* and in headers whose key is one of the exact names, and those in env whose
\* key holds one of the words, and returns every other value as it was.
C19_MasksExactly ==
  /\ MasksExactly(AnyString)
  /\ \A i \in Calls : MaskedAs(Given(i), output[i], NamedSensitive, AnyString, { << "h", "e", "a", "d", "e", "r", "s" >>, << "e", "n", "v" >> })

\* C19 amended: the same of the string values that are not empty; an empty
\* string is returned as it was, whatever its key.
C19_MasksExactlyNonEmpty ==
  /\ MasksExactly(NotEmpty)
  /\ \A i \in Calls : MaskedAs(Given(i), output[i], NamedSensitive, NotEmpty, { << "h", "e", "a", "d", "e", "r", "s" >>, << "e", "n", "v" >> })

C19_Witness ==
  /\ fn = "redactSensitive"
  /\ << "k", "e", "y" >> \in DOMAIN heap[input]
  /\ heap[input][<< "k", "e", "y" >>] = Str(<< "a", "b", "c", "d", "e", "f" >>)
  /\ heap[output[1]][<< "k", "e", "y" >>] = Str(<< "a", "b", "c", "d", "e", "f" >>)
  /\ << "e", "n", "v" >> \in DOMAIN heap[input]
  /\ << "M", "Y", "_", "A", "P", "I", "_", "T", "O", "K", "E", "N" >> \in DOMAIN heap[heap[input][<< "e", "n", "v" >>].ref]
  /\ heap[heap[output[1]][<< "e", "n", "v" >>].ref][<< "M", "Y", "_", "A", "P", "I", "_", "T", "O", "K", "E", "N" >>] = Str(<< "*", "*", "*", "*", "c", "d", "e", "f" >>)

\* ---------------------------------------------------------------------------
\* redactForLogs on any argv, not only one of buildSupergatewayArgs.
MaxArgs == 3

InitArgv ==
  /\ Idle
  /\ IdleStore
  /\ fn = "none"
  /\ input \in UNION { [1..n -> { << "-", "-", "o", "a", "u", "t", "h", "2", "B", "e", "a", "r", "e", "r" >>, << "-", "-", "O", "A", "U", "T", "H", "2", "B", "E", "A", "R", "E", "R" >>, << "t", "o", "k", "2" >>,
                                  << "-", "-", "h", "e", "a", "d", "e", "r" >>, << "A", "u", "t", "h", "o", "r", "i", "z", "a", "t", "i", "o", "n", ":", " ", "B", "e", "a", "r", "e", "r", " ", "t", "o", "k", "1" >> }] :
                         n \in 0..MaxArgs }
  /\ output = << >>
  /\ heap = << >>
  /\ heap0 = << >>

\* redactForLogs(argv)
RedactAnyArgv ==
  /\ fn = "none"
  /\ fn' = "redactForLogs(argv)"
  /\ output' = << redactArgv(input, 1) >>
  /\ UNCHANGED << opts, pc, thrown, printed, detected, orig, txVars, storeVars,
                  input, heap, heap0 >>

SpecArgv == InitArgv /\ [][RedactAnyArgv]_vars

\* C30: redactForLogs of an argv returns an array of the same length whose
\* i-th element is the i-th element given or its redacted form, also when the
\* last element is the bearer flag with no token after it.
C30_SameLengthSameOrder ==
  fn = "redactForLogs(argv)" =>
    /\ Len(output[1]) = Len(input)
    /\ \A i \in 1..Len(input) :
         IF output[1][i] = input[i] THEN TRUE
         ELSE IF output[1][i] = redactString(input[i]) THEN TRUE
         ELSE output[1][i] = << "<", "r", "e", "d", "a", "c", "t", "e", "d", ":", "b", "e", "a", "r", "e", "r", ">" >>

C24_WizardTakesOver ==
  (opts.interactive \/ noFlags(opts)) =>
    /\ pc \in {"execute", "wizard"}
    /\ thrown = NoError
    /\ detected = {} /\ printed = {} /\ txState = "Pending" /\ NothingWritten

\* ---------------------------------------------------------------------------
\* configure.ts execute() 3) to 6): the AgentConfig built from the options,
\* what is printed of it, and what is handed to configureAgents. input is the
\* options, output[1] the AgentConfig, output[2] the access-key line printed,
\* heap the arguments configureAgents was called with.
MaxProxyHeaders == 1

InitAgentConfig ==
  /\ Idle
  /\ IdleStore
  /\ fn = "none"
  /\ input \in
       [ transport : Transports,
         bearer : { << >>, << "t", "o", "k", "1", "2", "3", "4", "5" >> },
         headers : UNION { [K -> { << >>, << "B", "a", "s", "i", "c", " ", "a", "b", "c" >> }] :
                             K \in SUBSET { << "A", "u", "t", "h", "o", "r", "i", "z", "a", "t", "i", "o", "n" >>, << "a", "u", "t", "h", "o", "r", "i", "z", "a", "t", "i", "o", "n" >> } },
         proxyRemoteUrl : { << >>, << "h", "t", "t", "p", "s", ":", "/", "/", "r", "/", "m", "c", "p" >> },
         proxyTransport : { "", "http", "sse" },
         proxyBearer : { << >>, << "p", "t", "o", "k", "6", "7", "8", "9" >> },
         proxyHeader : UNION { [1..n -> { << "A", "u", "t", "h", "o", "r", "i", "z", "a", "t", "i", "o", "n", ":", " ", "B", "a", "s", "i", "c", " ", "p" >>, << ":", " ", "x" >>, << "X", "-", "O", "r", "g" >> }] :
                                 n \in 0..MaxProxyHeaders },
         dryRun : BOOLEAN,
         yes : BOOLEAN ]
  /\ output = << >>
  /\ heap = << >>
  /\ heap0 = << >>

\* execute() 3): proxy flags, default header policy, AgentConfig
BuildAgentConfig ==
  /\ fn = "none"
  /\ LET o == input
         proxied == Len(o.proxyRemoteUrl) > 0
         transport == IF proxied /\ o.proxyTransport # "" THEN o.proxyTransport
                      ELSE o.transport
         bearer == IF proxied /\ Len(o.proxyBearer) > 0 THEN o.proxyBearer ELSE o.bearer
         \* h.indexOf(':')
         colon(h) == IF \E i \in 1..Len(h) : h[i] = ":"
                       THEN CHOOSE i \in 1..Len(h) :
                              h[i] = ":" /\ \A j \in 1..(i - 1) : h[j] # ":"
                     ELSE 0
         key(h) == Trim(SubSeq(h, 1, colon(h) - 1))
         value(h) == Trim(SubSeq(h, colon(h) + 1, Len(h)))
         taken == IF proxied
                    THEN { n \in 1..Len(o.proxyHeader) :
                             colon(o.proxyHeader[n]) > 1 /\ key(o.proxyHeader[n]) # << >> }
                  ELSE {}
         last(k) == CHOOSE n \in taken :
                      /\ key(o.proxyHeader[n]) = k
                      /\ \A m \in taken : key(o.proxyHeader[m]) = k => m <= n
         extraHeaders == [k \in { key(o.proxyHeader[n]) : n \in taken } |->
                            value(o.proxyHeader[last(k)])]
         spread == [k \in DOMAIN o.headers \cup DOMAIN extraHeaders |->
                      IF k \in DOMAIN extraHeaders THEN extraHeaders[k] ELSE o.headers[k]]
         unset == IF << "A", "u", "t", "h", "o", "r", "i", "z", "a", "t", "i", "o", "n" >> \in DOMAIN spread
                    THEN Len(spread[<< "A", "u", "t", "h", "o", "r", "i", "z", "a", "t", "i", "o", "n" >>]) = 0
                  ELSE TRUE
         computedHeaders ==
           IF Len(bearer) > 0 /\ transport \in {"http", "sse"} /\ unset
             THEN [k \in DOMAIN spread \cup { << "A", "u", "t", "h", "o", "r", "i", "z", "a", "t", "i", "o", "n" >> } |->
                     IF k = << "A", "u", "t", "h", "o", "r", "i", "z", "a", "t", "i", "o", "n" >> THEN << "B", "e", "a", "r", "e", "r", " " >> \o bearer ELSE spread[k]]
           ELSE spread
     IN output' = << [ mcpAccessKey |-> bearer, transport |-> transport,
                       headers |-> computedHeaders ] >>
  /\ fn' = "agentConfig"
  /\ UNCHANGED << opts, pc, thrown, printed, detected, orig, txVars, storeVars,
                  input, heap, heap0 >>

\* execute() 4): printDryRunPreview, then return
PrintDryRunPreview ==
  /\ fn = "agentConfig"
  /\ input.dryRun
  /\ output' = Append(output, redact(output[1].mcpAccessKey))
  /\ fn' = "returned"
  /\ UNCHANGED << opts, pc, thrown, printed, detected, orig, txVars, storeVars,
                  input, heap, heap0 >>

\* execute() 5): confirm() prints the summary and asks
ConfirmPrompt ==
  /\ fn = "agentConfig"
  /\ ~input.dryRun /\ ~input.yes
  /\ output' = Append(output, redact(output[1].mcpAccessKey))
  /\ \E confirmed \in BOOLEAN : fn' = IF confirmed THEN "confirmed" ELSE "cancelled"
  /\ UNCHANGED << opts, pc, thrown, printed, detected, orig, txVars, storeVars,
                  input, heap, heap0 >>

\* execute() 6): configureAgents(agentConfig, detectionResults)
ConfigureAgentsMasked ==
  /\ IF fn = "agentConfig" THEN ~input.dryRun /\ input.yes ELSE fn = "confirmed"
  /\ heap' = << [output[1] EXCEPT !.mcpAccessKey = redact(@)] >>
  /\ fn' = "configureAgents"
  /\ UNCHANGED << opts, pc, thrown, printed, detected, orig, txVars, storeVars,
                  input, output, heap0 >>

ConfigureAgentsCall ==
  /\ IF fn = "agentConfig" THEN ~input.dryRun /\ input.yes ELSE fn = "confirmed"
  /\ heap' = << output[1] >>
  /\ fn' = "configureAgents"
  /\ UNCHANGED << opts, pc, thrown, printed, detected, orig, txVars, storeVars,
                  input, output, heap0 >>

SpecAgentConfig ==
  InitAgentConfig
  /\ [][BuildAgentConfig \/ PrintDryRunPreview \/ ConfirmPrompt \/ ConfigureAgentsCall]_vars

\* What the caller gave: the token and transport in effect (those of the proxy
\* flags where given with a proxy remote URL), and the headers, those of
\* "K: V" proxy headers over those of the headers option.
Proxied == Len(input.proxyRemoteUrl) > 0
GivenToken == IF Proxied /\ Len(input.proxyBearer) > 0 THEN input.proxyBearer ELSE input.bearer
GivenTransport == IF Proxied /\ input.proxyTransport # "" THEN input.proxyTransport ELSE input.transport

HeaderName(h) ==
  IF \E i \in 2..Len(h) : h[i] = ":" /\ \A j \in 1..(i - 1) : h[j] # ":"
    THEN Trim(SubSeq(h, 1, (CHOOSE i \in 2..Len(h) : h[i] = ":" /\ \A j \in 1..(i - 1) : h[j] # ":") - 1))
  ELSE << >>

HeaderText(h) ==
  Trim(SubSeq(h, (CHOOSE i \in 1..Len(h) : h[i] = ":" /\ \A j \in 1..(i - 1) : h[j] # ":") + 1, Len(h)))

GivenProxyHeaders ==
  IF Proxied THEN { n \in 1..Len(input.proxyHeader) : HeaderName(input.proxyHeader[n]) # << >> }
  ELSE {}

GivenHeaderNames ==
  DOMAIN input.headers \cup { HeaderName(input.proxyHeader[n]) : n \in GivenProxyHeaders }

GivenHeader(k) ==
  IF \E n \in GivenProxyHeaders : HeaderName(input.proxyHeader[n]) = k
    THEN HeaderText(input.proxyHeader[
           CHOOSE n \in GivenProxyHeaders :
             /\ HeaderName(input.proxyHeader[n]) = k
             /\ \A m \in GivenProxyHeaders : HeaderName(input.proxyHeader[m]) = k => m <= n])
  ELSE input.headers[k]

C26_DefaultAuthorization ==
  fn # "none" =>
    /\ output[1].transport = GivenTransport
    /\ output[1].mcpAccessKey = GivenToken
    /\ \A k \in GivenHeaderNames : output[1].headers[k] = GivenHeader(k)
    /\ DOMAIN output[1].headers \ GivenHeaderNames =
         IF /\ Len(GivenToken) > 0
            /\ GivenTransport \in {"http", "sse"}
            /\ \A k \in GivenHeaderNames : Lower(k) # << "a", "u", "t", "h", "o", "r", "i", "z", "a", "t", "i", "o", "n" >>
           THEN { << "A", "u", "t", "h", "o", "r", "i", "z", "a", "t", "i", "o", "n" >> }
         ELSE {}
    /\ \A k \in DOMAIN output[1].headers \ GivenHeaderNames :
         output[1].headers[k] = << "B", "e", "a", "r", "e", "r", " " >> \o GivenToken

\* ---------------------------------------------------------------------------
\* status.ts buildProviderStatuses. input is the detection results, heap the
\* statuses of the reads that have completed, by position, heap0 the order in
\* which they completed, output the array returned.
MaxDetections == 3

\* The ProviderStatus of one detection result. The file at configPath is
\* valid in its format, not valid, empty, or cannot be read;
\* FileOperations.readJsonFile throws for a file it cannot read or parse.
providerStatus(det) ==
  LET status(path, error, servers) ==
        [name |-> det.name, detected |-> det.detected, configPath |-> path,
         error |-> error, servers |-> servers]
  IN IF ~det.detected THEN status(FALSE, det.error, "none")
     ELSE IF ~det.configPath THEN status(FALSE, "none", "none")
     ELSE IF det.name = "Codex CLI"
       THEN (IF det.file = "unreadable" THEN status(TRUE, "read error", "none")
             ELSE IF det.file = "empty" THEN status(TRUE, "none", << >>)
             \* TOML.parse threw: caught, servers stays []
             ELSE IF det.file = "invalid" THEN status(TRUE, "none", << >>)
             ELSE status(TRUE, "none", << "redacted" >>))
     ELSE IF det.file = "valid" THEN status(TRUE, "none", << "redacted" >>)
     ELSE status(TRUE, IF det.file = "unreadable" THEN "read error" ELSE "parse error", "none")

InitStatus ==
  /\ Idle
  /\ IdleStore
  /\ fn = "none"
  /\ \E names \in UNION { [1..n -> {"Gemini CLI", "Cursor", "Codex CLI"}] : n \in 0..MaxDetections } :
       /\ \A i, j \in DOMAIN names : i # j => names[i] # names[j]
       /\ input \in { dets \in [DOMAIN names ->
                                  [name : {"Gemini CLI", "Cursor", "Codex CLI"},
                                   detected : BOOLEAN, configPath : BOOLEAN,
                                   error : {"none", "detection failed"},
                                   file : {"valid", "invalid", "empty", "unreadable"}]] :
                        \A i \in DOMAIN names :
                          /\ dets[i].name = names[i]
                          /\ dets[i].detected => dets[i].error = "none"
                          /\ ~dets[i].detected => ~dets[i].configPath
                          /\ ~dets[i].configPath => dets[i].file = "valid" }
  /\ output = << >>
  /\ heap = << >>
  /\ heap0 = << >>

\* The async callback of one detection result runs to its return.
ReadDone ==
  /\ fn = "none"
  /\ \E i \in DOMAIN input \ DOMAIN heap :
       /\ heap' = [j \in DOMAIN heap \cup {i} |->
                     IF j = i THEN providerStatus(input[i]) ELSE heap[j]]
       /\ heap0' = Append(heap0, i)
  /\ UNCHANGED << opts, pc, thrown, printed, detected, orig, txVars, storeVars,
                  fn, input, output >>

\* Promise.all(readPromises) resolves: the statuses by position.
PromiseAllAsCompleted ==
  /\ fn = "none"
  /\ DOMAIN heap = DOMAIN input
  /\ output' = [i \in DOMAIN input |-> heap[heap0[i]]]
  /\ fn' = "returned"
  /\ UNCHANGED << opts, pc, thrown, printed, detected, orig, txVars, storeVars,
                  input, heap, heap0 >>

PromiseAll ==
  /\ fn = "none"
  /\ DOMAIN heap = DOMAIN input
  /\ output' = [i \in DOMAIN input |-> heap[i]]
  /\ fn' = "returned"
  /\ UNCHANGED << opts, pc, thrown, printed, detected, orig, txVars, storeVars,
                  input, heap, heap0 >>

SpecStatus == InitStatus /\ [][ReadDone \/ PromiseAll]_vars

\* The file of the i-th detection result is there and not valid in its format.
NotValid(i) == input[i].detected /\ input[i].configPath /\ input[i].file = "invalid"

\* C22: in the status listing an agent whose file is present but not valid in
\* its format has an entry that carries an error, JSON agents and Codex CLI
\* alike, and every other entry is what it is when that file is valid.
C22_ParseErrorReported ==
  fn = "returned" =>
    \A i \in DOMAIN input :
      /\ NotValid(i) => output[i].error # "none"
      /\ ~NotValid(i) => output[i] = providerStatus(input[i])

\* C29: for every order in which the reads complete, buildProviderStatuses
\* returns one entry per detection result, in their order, each the status of
\* that agent's own file; no configuration file is written.
C29_OrderIndependent ==
  /\ NothingWritten
  /\ fn = "returned" =>
       /\ DOMAIN output = DOMAIN input
       /\ \A i \in DOMAIN input :
            /\ output[i].name = input[i].name
            /\ output[i] = providerStatus(input[i])

C29_Witness ==
  /\ fn = "returned"
  /\ Len(input) = 3
  /\ heap0 = << 3, 1, 2 >>
  /\ output[1].error # "none"
  /\ input[2].file = "valid"
  /\ output[2].configPath
  /\ output[2].error = "none"

\* ---------------------------------------------------------------------------
\* interactive.ts: the STDIO flow of the wizard (getMCPConfig), its apply step
\* and the ConfigureCommand it runs; utils/tools.ts. input is the tool picked
\* from the catalogue and its surroundings, heap what the wizard has done so
\* far, output the server specification once command and args are placed in
\* it, heap0 the command and args handed to the nested command, opts and pc
\* the options and the position of that nested command.

\* tools.ts splitCommand: cmd.split(' ').filter(Boolean), head and rest.
splitCommand(cmd) ==
  LET RECURSIVE parts(_, _)
      parts(i, part) ==
        IF i > Len(cmd) THEN (IF part = << >> THEN << >> ELSE << part >>)
        ELSE IF cmd[i] = " "
          THEN (IF part = << >> THEN << >> ELSE << part >>) \o parts(i + 1, << >>)
        ELSE parts(i + 1, Append(part, cmd[i]))
      p == parts(1, << >>)
  IN [command |-> IF p = << >> THEN << >> ELSE p[1],
      args |-> IF Len(p) > 1 THEN Tail(p) ELSE << >>]

\* tools.ts detectTool; path is the set of commands `which` finds.
detectTool(tool, path) ==
  LET cmds == tool.commands
      found == { i \in 1..Len(cmds) : splitCommand(cmds[i]).command \in path }
      first == CHOOSE i \in found : \A j \in found : i <= j
  IN IF tool.bin # << >> /\ tool.bin \in path
       THEN [installed |-> TRUE, command |-> tool.bin]
     ELSE IF found # {}
       THEN [installed |-> TRUE, command |-> splitCommand(cmds[first]).command]
     ELSE [installed |-> FALSE, command |-> << >>]

InitWizard ==
  /\ Idle
  /\ IdleStore
  /\ fn = "ensureInstalled"
  /\ input \in
       [tool : { [bin |-> << "s", "r", "v" >>,
                  commands |-> << << "s", "r", "v", " ", "-", "-", "s", "t", "d", "i", "o" >>, << "u", "v", "x", " ", "s", "r", "v" >>, << "n", "p", "x", " ", "-", "y", " ", "s", "r", "v" >>, << "n", "o", "d", "e", " ", "s", "r", "v", ".", "j", "s" >> >>],
                 [bin |-> << "s", "r", "v" >>, commands |-> << << "n", "p", "x", "s", "r", "v", " ", "r", "u", "n" >>, << "p", "h", "p", " ", " ", "s", ".", "p", "h", "p" >> >>],
                 [bin |-> << "s", "r", "v" >>, commands |-> << << "u", "v", "x", " ", "s", "r", "v" >> >>],
                 [bin |-> << "s", "r", "v" >>, commands |-> << << "n", "p", "x", " ", "-", "y" >> \o << "\t" >> \o << "s", "r", "v" >> >>],
                 [bin |-> << "s", "r", "v" >>, commands |-> << >>],
                 [bin |-> << "n", "p", "x" >>, commands |-> << << "n", "p", "x", " ", "-", "y", " ", "s", "r", "v" >> >>] },
        path : SUBSET { << "s", "r", "v" >>, << "n", "p", "x" >> },
        install : {"adds the binary", "adds nothing", "throws"},
        noInstall : BOOLEAN,
        healthOk : BOOLEAN,
        agents : SUBSET Agents \ {{}}]
  /\ output = << >>
  /\ heap = [path |-> input.path, det |-> [installed |-> FALSE, command |-> << >>],
             detections |-> 0, installs |-> 0, invoke |-> [command |-> << >>, args |-> << >>],
             customized |-> FALSE, healthChecks |-> 0, offered |-> << >>,
             accepted |-> "not asked", error |-> "", executions |-> 0]
  /\ heap0 = << >>

\* getMCPConfig, interactive.ts 333-346, with installation attempted whatever
\* noInstall says.
EnsureInstalledWhatever ==
  /\ fn = "ensureInstalled"
  /\ LET det == detectTool(input.tool, heap.path)
         after == IF input.install = "adds the binary"
                    THEN heap.path \cup {input.tool.bin} ELSE heap.path
         again == detectTool(input.tool, after)
     IN IF det.installed
          THEN /\ heap' = [heap EXCEPT !.det = det, !.detections = 1]
               /\ fn' = "chooseInvocation"
        ELSE IF input.install = "throws"
          THEN /\ heap' = [heap EXCEPT !.det = det, !.detections = 1, !.installs = 1,
                                       !.error = "install failed"]
               /\ fn' = "aborted"
        ELSE /\ heap' = [heap EXCEPT !.det = again, !.detections = 2, !.installs = 1,
                                     !.path = after,
                                     !.error = IF again.installed THEN ""
                                               ELSE "not found after install"]
             /\ fn' = IF again.installed THEN "chooseInvocation" ELSE "aborted"
  /\ UNCHANGED << opts, pc, thrown, printed, detected, orig, txVars, storeVars,
                  input, output, heap0 >>

\* getMCPConfig, interactive.ts 333-346: detect the tool; if it is missing,
\* throw when installation is disabled, else install and detect again, and
\* throw if it is still missing.
EnsureInstalled ==
  /\ fn = "ensureInstalled"
  /\ LET det == detectTool(input.tool, heap.path)
         after == IF input.install = "adds the binary"
                    THEN heap.path \cup {input.tool.bin} ELSE heap.path
         again == detectTool(input.tool, after)
     IN IF det.installed
          THEN /\ heap' = [heap EXCEPT !.det = det, !.detections = 1]
               /\ fn' = "chooseInvocation"
        ELSE IF input.noInstall
          THEN /\ heap' = [heap EXCEPT !.det = det, !.detections = 1,
                                       !.error = "not installed"]
               /\ fn' = "aborted"
        ELSE IF input.install = "throws"
          THEN /\ heap' = [heap EXCEPT !.det = det, !.detections = 1, !.installs = 1,
                                       !.error = "install failed"]
               /\ fn' = "aborted"
        ELSE /\ heap' = [heap EXCEPT !.det = again, !.detections = 2, !.installs = 1,
                                     !.path = after,
                                     !.error = IF again.installed THEN ""
                                               ELSE "not found after install"]
             /\ fn' = IF again.installed THEN "chooseInvocation" ELSE "aborted"
  /\ UNCHANGED << opts, pc, thrown, printed, detected, orig, txVars, storeVars,
                  input, output, heap0 >>

\* getMCPConfig, interactive.ts 347-386 and 410-417, with the last of the
\* runner commands as the fallback.
ChooseInvocationLastRunner ==
  /\ fn = "chooseInvocation"
  /\ \E customize \in BOOLEAN, acceptFallback \in BOOLEAN,
        edited \in { [command |-> << "m", "y" >>, args |-> << << "-", "x" >> >>] } :
       LET tool == input.tool
           \* tools.ts chooseDefaultInvocation
           invoke == IF heap.det.installed /\ heap.det.command = tool.bin
                       THEN [command |-> tool.bin, args |-> << >>]
                     ELSE splitCommand(IF Len(tool.commands) > 0 /\ tool.commands[1] # << >>
                                         THEN tool.commands[1] ELSE tool.bin)
           usingDedicatedBin ==
             /\ invoke.command = tool.bin
             /\ tool.bin \notin { << "n", "p", "x" >>, << "n", "o", "d", "e" >>, << "p", "h", "p" >>, << "p", "y", "t", "h", "o", "n" >>, << "p", "y", "t", "h", "o", "n", "3" >> }
           startsWith(c, p) == Len(c) >= Len(p) /\ SubSeq(c, 1, Len(p)) = p
           runners == { i \in 1..Len(tool.commands) :
                          IF startsWith(tool.commands[i], << "n", "p", "x", " " >>) THEN TRUE
                          ELSE IF startsWith(tool.commands[i], << "n", "o", "d", "e", " " >>) THEN TRUE
                          ELSE startsWith(tool.commands[i], << "p", "h", "p", " " >>) }
           found == CHOOSE i \in runners : \A j \in runners : i >= j
           fallback == IF runners = {} THEN << >> ELSE tool.commands[found]
           placed(spec, h) ==
             /\ output' = << spec >>
             /\ heap' = h
             /\ fn' = "applyConfiguration"
           failed(h, message) ==
             /\ output' = output
             /\ heap' = [h EXCEPT !.error = message]
             /\ fn' = "aborted"
           h0 == [heap EXCEPT !.invoke = invoke]
           h1 == [h0 EXCEPT !.healthChecks = 1]
           h2 == [h1 EXCEPT !.offered = fallback]
       IN IF customize THEN placed(edited, [h0 EXCEPT !.customized = TRUE])
          ELSE IF ~usingDedicatedBin THEN placed(invoke, h0)
          ELSE IF input.healthOk THEN placed(invoke, h1)
          ELSE IF fallback = << >> THEN failed(h1, "health check failed")
          ELSE IF ~acceptFallback
            THEN failed([h2 EXCEPT !.accepted = "no"], "health check failed")
          ELSE IF splitCommand(fallback).command = << >>
            THEN failed([h2 EXCEPT !.accepted = "yes"], "invalid fallback invocation")
          ELSE placed(splitCommand(fallback), [h2 EXCEPT !.accepted = "yes"])
  /\ UNCHANGED << opts, pc, thrown, printed, detected, orig, txVars, storeVars,
                  input, heap0 >>

\* getMCPConfig, interactive.ts 347-386 and 410-417: the default
\* invocation, the customisation, the health check and its fallback.
ChooseInvocation ==
  /\ fn = "chooseInvocation"
  /\ \E customize \in BOOLEAN, acceptFallback \in BOOLEAN,
        edited \in { [command |-> << "m", "y" >>, args |-> << << "-", "x" >> >>] } :
       LET tool == input.tool
           \* tools.ts chooseDefaultInvocation
           invoke == IF heap.det.installed /\ heap.det.command = tool.bin
                       THEN [command |-> tool.bin, args |-> << >>]
                     ELSE splitCommand(IF Len(tool.commands) > 0 /\ tool.commands[1] # << >>
                                         THEN tool.commands[1] ELSE tool.bin)
           usingDedicatedBin ==
             /\ invoke.command = tool.bin
             /\ tool.bin \notin { << "n", "p", "x" >>, << "n", "o", "d", "e" >>, << "p", "h", "p" >>, << "p", "y", "t", "h", "o", "n" >>, << "p", "y", "t", "h", "o", "n", "3" >> }
           startsWith(c, p) == Len(c) >= Len(p) /\ SubSeq(c, 1, Len(p)) = p
           runners == { i \in 1..Len(tool.commands) :
                          IF startsWith(tool.commands[i], << "n", "p", "x", " " >>) THEN TRUE
                          ELSE IF startsWith(tool.commands[i], << "n", "o", "d", "e", " " >>) THEN TRUE
                          ELSE startsWith(tool.commands[i], << "p", "h", "p", " " >>) }
           found == CHOOSE i \in runners : \A j \in runners : i <= j
           fallback == IF runners = {} THEN << >> ELSE tool.commands[found]
           placed(spec, h) ==
             /\ output' = << spec >>
             /\ heap' = h
             /\ fn' = "applyConfiguration"
           failed(h, message) ==
             /\ output' = output
             /\ heap' = [h EXCEPT !.error = message]
             /\ fn' = "aborted"
           h0 == [heap EXCEPT !.invoke = invoke]
           h1 == [h0 EXCEPT !.healthChecks = 1]
           h2 == [h1 EXCEPT !.offered = fallback]
       IN IF customize THEN placed(edited, [h0 EXCEPT !.customized = TRUE])
          ELSE IF ~usingDedicatedBin THEN placed(invoke, h0)
          ELSE IF input.healthOk THEN placed(invoke, h1)
          ELSE IF fallback = << >> THEN failed(h1, "health check failed")
          ELSE IF ~acceptFallback
            THEN failed([h2 EXCEPT !.accepted = "no"], "health check failed")
          ELSE IF splitCommand(fallback).command = << >>
            THEN failed([h2 EXCEPT !.accepted = "yes"], "invalid fallback invocation")
          ELSE placed(splitCommand(fallback), [h2 EXCEPT !.accepted = "yes"])
  /\ UNCHANGED << opts, pc, thrown, printed, detected, orig, txVars, storeVars,
                  input, heap0 >>

\* start() step 4 and applyConfiguration, interactive.ts 79-86 and 534-574, with
\* interactive left on.
ApplyConfigurationInteractive ==
  /\ fn = "applyConfiguration"
  /\ \E confirmed \in BOOLEAN, backup \in {"on", "off"} :
       IF ~confirmed
         THEN /\ fn' = "cancelled"
              /\ UNCHANGED << opts, pc, heap0 >>
         ELSE /\ opts' = [transport |-> "stdio", endpoint |-> "", command |-> "cmd",
                          bearer |-> "", interactive |-> TRUE, dryRun |-> FALSE,
                          yes |-> TRUE, backup |-> backup, agents |-> input.agents]
              /\ heap0' = << [command |-> output[1].command, args |-> output[1].args] >>
              /\ pc' = "execute"
              /\ fn' = "nestedExecute"
  /\ UNCHANGED << thrown, printed, detected, orig, txVars, storeVars,
                  input, output, heap >>

\* start() step 4 and applyConfiguration, interactive.ts 79-86 and 534-574: the
\* options of the nested ConfigureCommand.
ApplyConfiguration ==
  /\ fn = "applyConfiguration"
  /\ \E confirmed \in BOOLEAN, backup \in {"on", "off"} :
       IF ~confirmed
         THEN /\ fn' = "cancelled"
              /\ UNCHANGED << opts, pc, heap0 >>
         ELSE /\ opts' = [transport |-> "stdio", endpoint |-> "", command |-> "cmd",
                          bearer |-> "", interactive |-> FALSE, dryRun |-> FALSE,
                          yes |-> TRUE, backup |-> backup, agents |-> input.agents]
              /\ heap0' = << [command |-> output[1].command, args |-> output[1].args] >>
              /\ pc' = "execute"
              /\ fn' = "nestedExecute"
  /\ UNCHANGED << thrown, printed, detected, orig, txVars, storeVars,
                  input, output, heap >>

\* configure.ts execute() of the nested command: validateOptions, the
\* interactive path, the confirmation prompt unless yes, and the registry's
\* transaction over the agents asked for, which applies all or nothing.
NestedExecute ==
  /\ fn = "nestedExecute"
  /\ pc = "execute"
  /\ \E committed \in BOOLEAN :
       LET e == validateOptions(opts)
           written == [a \in Agents |->
                         IF a \in opts.agents
                           THEN Serialize(Merge(Parse(files[a]), NewServerId, "new"))
                         ELSE files[a]]
       IN IF e # ""
            THEN /\ pc' = "rejected"
                 /\ thrown' = Err(e, 0)
                 /\ files' = files
          ELSE IF (IF opts.interactive THEN TRUE ELSE noFlags(opts))
            THEN /\ pc' = "wizard"
                 /\ thrown' = thrown
                 /\ files' = files
          ELSE IF ~opts.yes
            THEN /\ pc' = "confirm"
                 /\ thrown' = thrown
                 /\ files' = files
          ELSE IF committed
            THEN /\ pc' = "resolved"
                 /\ thrown' = thrown
                 /\ files' = written
          ELSE /\ pc' = "rejected"
               /\ thrown' = Err("configuration failed", 0)
               /\ files' = files
  /\ heap' = [heap EXCEPT !.executions = @ + 1]
  /\ fn' = "done"
  /\ UNCHANGED << opts, printed, detected, orig, tmp, backups, targets, txState, idx,
                  step, cur, records, rbPos, txError, log, storeVars,
                  input, output, heap0 >>

SpecWizard ==
  InitWizard /\ [][EnsureInstalled \/ ChooseInvocation \/ ApplyConfiguration \/ NestedExecute]_vars

\* The tokens of s from position i on, part being the token under way: the
\* maximal runs of characters that are not separators.
RECURSIVE TokensFrom(_, _, _, _)
TokensFrom(s, i, part, seps) ==
  IF i > Len(s) THEN (IF Len(part) = 0 THEN << >> ELSE << part >>)
  ELSE IF s[i] \in seps
    THEN (IF Len(part) = 0 THEN << >> ELSE << part >>) \o TokensFrom(s, i + 1, << >>, seps)
  ELSE TokensFrom(s, i + 1, part \o << s[i] >>, seps)

Tokens(s, seps) == TokensFrom(s, 1, << >>, seps)

\* `which` finds the tool's binary or the first word of one of its discovery
\* commands.
Found(tool, path) ==
  \/ Len(tool.bin) > 0 /\ tool.bin \in path
  \/ \E i \in 1..Len(tool.commands) :
       /\ Tokens(tool.commands[i], {" "}) # << >>
       /\ Tokens(tool.commands[i], {" "})[1] \in path

\* C25: the command the wizard builds runs in manual mode (interactive false,
\* yes true, agents not empty); it never opens the wizard or a confirmation
\* prompt, it is executed at most once and its execution ends the chain.
C25_NestedRunsManually ==
  /\ pc \notin {"wizard", "confirm"}
  /\ heap.executions <= 1
  /\ fn \in {"nestedExecute", "done"} => ~opts.interactive /\ opts.yes /\ opts.agents # {}
  /\ fn = "done" => heap.executions = 1 /\ pc \in {"resolved", "rejected"}
  /\ fn \notin {"nestedExecute", "done"} => pc = "idle"

C25_Witness ==
  /\ fn = "done"
  /\ pc = "resolved"
  /\ files # orig
  /\ heap.accepted = "yes"

\* C27: command and args are placed in the server specification only when
\* the last detection found the tool; a missing tool with installation
\* disabled aborts without an installation attempt; otherwise it is installed
\* and detected again, and the wizard aborts if it is still missing; an abort
\* leaves every file as it was and runs no command.
C27_PlacedOnlyWhenInstalled ==
  /\ output # << >> => heap.det.installed /\ Found(input.tool, heap.path)
  /\ (fn # "ensureInstalled" /\ ~Found(input.tool, input.path)) =>
       IF input.noInstall
         THEN fn = "aborted" /\ heap.installs = 0 /\ heap.path = input.path
       ELSE /\ heap.installs = 1
            /\ input.install # "throws" => heap.detections = 2
            /\ ~Found(input.tool, heap.path) => fn = "aborted"
  /\ fn = "aborted" =>
       /\ heap.error # ""
       /\ output = << >>
       /\ heap.executions = 0
       /\ pc = "idle"
       /\ NothingWritten

C27_Witness ==
  /\ fn = "aborted"
  /\ ~input.noInstall
  /\ heap.installs = 1
  /\ heap.detections = 2
  /\ heap.error = "not found after install"

\* A discovery command that may be offered as the fallback.
Offerable(c) == \E p \in { << "n", "p", "x", " " >>, << "n", "o", "d", "e", " " >>, << "p", "h", "p", " " >> } : IsPrefix(p, c)

\* The first of them in the order of the catalogue, << >> if there is none.
FirstOfferable(cmds) ==
  IF \E i \in 1..Len(cmds) : Offerable(cmds[i])
    THEN cmds[CHOOSE i \in 1..Len(cmds) :
                /\ Offerable(cmds[i])
                /\ \A j \in 1..(i - 1) : ~Offerable(cmds[j])]
  ELSE << >>

HealthCheckFailed == heap.healthChecks > 0 /\ ~input.healthOk

\* The rule of the fallback, with the characters that separate the tokens of
\* the command accepted.
FallbackRule(seps) ==
  /\ HealthCheckFailed => heap.offered = FirstOfferable(input.tool.commands)
  /\ heap.accepted = "yes" =>
       LET t == Tokens(heap.offered, seps)
       IN output = << [command |-> Head(t), args |-> Tail(t)] >>
  /\ (HealthCheckFailed /\ (heap.accepted = "no" \/ heap.offered = << >>)) =>
       /\ fn = "aborted"
       /\ heap.error = "health check failed"
       /\ output = << >>
       /\ heap.executions = 0
       /\ pc = "idle"
       /\ NothingWritten
  /\ heap.healthChecks > 0 =>
       /\ heap.invoke.command = input.tool.bin
       /\ ~heap.customized

\* C28 (as claimed): the fallback offered after a failed health check is the
\* first discovery command that starts with 'npx ', 'node ' or 'php '; once
\* accepted, command and args are its whitespace-separated tokens; declined
\* or missing, the wizard fails with a health-check error and applies
\* nothing; the health check runs only for the tool's own binary, not
\* customised.
C28_FallbackWhitespaceTokens == FallbackRule({" ", "\t", "\n", "\r"})

\* C28 (amended): the same, command and args being the tokens of the fallback
\* separated by space characters only, any other whitespace staying inside
\* its token.
C28_FallbackSpaceTokens == FallbackRule({" "})

C28_Witness ==
  /\ heap.accepted = "yes"
  /\ heap.offered = << "p", "h", "p", " ", " ", "s", ".", "p", "h", "p" >>
  /\ output = << [command |-> << "p", "h", "p" >>, args |-> << << "s", ".", "p", "h", "p" >> >>] >>
  /\ fn = "done"

====
